---- MODULE Spec2Model ----
(***************************************************************************)
(* A model of the gale/gluumy interpreter core.                            *)
(*                                                                         *)
(* The repository holds two snapshots of the core:                         *)
(*   - src/src/main.rs: the crate root.  Runtime { store, dictionary },    *)
(*     a VecDeque-backed Store of StoreEntry values (front = top), and the *)
(*     only feed_word with a body.  Modelled by the variables container,   *)
(*     dictionary and call, under the specifications Spec and SpecDict.    *)
(*   - src/src/store.rs + src/src/runtime.rs: a Vec-backed Store of        *)
(*     Rc<Object> handles (end = top) and the primitive words over it.     *)
(*     Modelled by the variables store, heap and ret, under SpecStore.     *)
(***************************************************************************)
EXTENDS Integers, Sequences, FiniteSets, TLC

\* ------------------------------------------------------------------ bounds
\* Deepest operand stack the model explores.
MaxDepth == 2
\* Largest magnitude of an arithmetic result the model keeps on the store.
MaxVal == 2
\* Most user definitions the model adds to the dictionary.
MaxDefs == 2

VARIABLES
    overflow_checks,  \* build profile: TRUE = debug (overflow checks), FALSE = release
    container,        \* main.rs Store.container, index 1 = front = top of stack
    dictionary,       \* main.rs Runtime.dictionary: identifier -> sequence of Word
    call,             \* the last call made on the main.rs Runtime and its outcome
    store,            \* store.rs Store.0: a Vec of Rc handles, last element = top
    heap,             \* the live Rc allocations: handle -> Object
    ret,              \* the last call made on the store.rs Store and what it returned
    parser            \* bootstrap parse_string: its input, its locals and its outcome

mainVars == <<container, dictionary, call>>
storeVars == <<store, heap, ret>>
vars == <<overflow_checks, container, dictionary, call, store, heap, ret, parser>>

\* ------------------------------------------------------------ result values
Ok == [tag |-> "Ok", err |-> "", name |-> <<>>]
Err(e) == [tag |-> "Err", err |-> e, name |-> <<>>]
\* A NoWordsByName that loses the token it was built for.
NoWordsByName_blank(word_str) == [tag |-> "Err", err |-> "NoWordsByName", name |-> <<>>]
NoWordsByName(word_str) == [tag |-> "Err", err |-> "NoWordsByName", name |-> word_str]
Panic(msg) == [tag |-> "Panic", err |-> msg, name |-> <<>>]
NoResult == [tag |-> "None", err |-> "", name |-> <<>>]

\* ------------------------------------------------------------------ objects
\* A value is kind + a rational num/den.  Integers have den = 1.  An UnsignedInt
\* with num < 0 stands for the wrapped bit pattern 2^64 + num.  A float with
\* den = 0 is non-finite: num = 1 is +inf, num = -1 is -inf, num = 0 is NaN.
Obj(kind, num, den) == [kind |-> kind, num |-> num, den |-> den]
NoObj == Obj("None", 0, 1)
UnsignedInt(n) == Obj("UnsignedInt", n, 1)
SignedInt(n) == Obj("SignedInt", n, 1)
Boolean(b) == Obj("Boolean", IF b THEN 1 ELSE 0, 1)

Abs(x) == IF x < 0 THEN -x ELSE x
Sign(x) == IF x < 0 THEN -1 ELSE IF x > 0 THEN 1 ELSE 0

RECURSIVE Gcd(_, _)
Gcd(a, b) == IF b = 0 THEN a ELSE Gcd(b, a % b)

\* A float from a fraction, in lowest terms with a positive denominator.
Float(n, d) ==
    IF d = 0 THEN Obj("Float", Sign(n), 0)
    ELSE LET g == Gcd(Abs(n), Abs(d))
             s == IF d < 0 THEN -1 ELSE 1
         IN Obj("Float", (s * n) \div g, (s * d) \div g)

OkObj(o) == [tag |-> "Ok", err |-> "", obj |-> o]
ErrObj(e) == [tag |-> "Err", err |-> e, obj |-> NoObj]
PanicObj(msg) == [tag |-> "Panic", err |-> msg, obj |-> NoObj]

\* Rust's integer / and %: the quotient truncates toward zero, the remainder
\* takes the sign of the dividend.
TruncDiv(a, b) == Sign(a) * Sign(b) * (Abs(a) \div Abs(b))
TruncRem(a, b) == a - b * TruncDiv(a, b)

\* usize arithmetic whose mathematical result is x: out of range it panics under
\* overflow checks and wraps without them.
UsizeResult(x, checks, msg) ==
    IF x < 0
    THEN IF checks THEN PanicObj(msg) ELSE OkObj(UnsignedInt(x))
    ELSE OkObj(UnsignedInt(x))

Finite(o) == o.den # 0

FloatAdd(l, r) == Float(l.num * r.den + r.num * l.den, l.den * r.den)
FloatSub(l, r) == Float(l.num * r.den - r.num * l.den, l.den * r.den)
FloatMul(l, r) == Float(l.num * r.num, l.den * r.den)
\* x / 0.0 is +-inf, 0.0 / 0.0 is NaN: no panic.
FloatDiv(l, r) == Float(l.num * r.den, l.den * r.num)
\* fmod: x - trunc(x / y) * y; x % 0.0 is NaN.
FloatRem(l, r) ==
    IF r.num = 0 THEN Float(0, 0)
    ELSE LET q == TruncDiv(l.num * r.den, l.den * r.num)
         IN Float(l.num * r.den - q * r.num * l.den, l.den * r.den)

IsNumber(o) == o.kind \in {"UnsignedInt", "SignedInt", "Float"}

\* main.rs Primitive::add .. Primitive::modu: the match arms in source order.
Primitive_add(left, right, checks) ==
    CASE left.kind = "UnsignedInt" /\ right.kind = "UnsignedInt" ->
            UsizeResult(left.num + right.num, checks, "attempt to add with overflow")
      [] left.kind = "SignedInt" /\ right.kind = "SignedInt" ->
            OkObj(SignedInt(left.num + right.num))
      [] left.kind = "Float" /\ right.kind = "Float" -> OkObj(FloatAdd(left, right))
      [] IsNumber(left) /\ IsNumber(right) /\ left.kind # right.kind ->
            PanicObj("not implemented: addition of disparate number types")
      [] OTHER -> ErrObj("IncompatibleTypes")

Primitive_sub(left, right, checks) ==
    CASE left.kind = "UnsignedInt" /\ right.kind = "UnsignedInt" ->
            UsizeResult(left.num - right.num, checks, "attempt to subtract with overflow")
      [] left.kind = "SignedInt" /\ right.kind = "SignedInt" ->
            OkObj(SignedInt(left.num - right.num))
      [] left.kind = "Float" /\ right.kind = "Float" -> OkObj(FloatSub(left, right))
      [] IsNumber(left) /\ IsNumber(right) /\ left.kind # right.kind ->
            PanicObj("not implemented: subtraction of disparate number types")
      [] OTHER -> ErrObj("IncompatibleTypes")

Primitive_mul(left, right, checks) ==
    CASE left.kind = "UnsignedInt" /\ right.kind = "UnsignedInt" ->
            UsizeResult(left.num * right.num, checks, "attempt to multiply with overflow")
      [] left.kind = "SignedInt" /\ right.kind = "SignedInt" ->
            OkObj(SignedInt(left.num * right.num))
      [] left.kind = "Float" /\ right.kind = "Float" -> OkObj(FloatMul(left, right))
      [] IsNumber(left) /\ IsNumber(right) /\ left.kind # right.kind ->
            PanicObj("not implemented: multiplication of disparate number types")
      [] OTHER -> ErrObj("IncompatibleTypes")

Primitive_div(left, right, checks) ==
    CASE left.kind = "UnsignedInt" /\ right.kind = "UnsignedInt" ->
            IF right.num = 0 THEN PanicObj("attempt to divide by zero")
            ELSE OkObj(UnsignedInt(left.num \div right.num))
      [] left.kind = "SignedInt" /\ right.kind = "SignedInt" ->
            IF right.num = 0 THEN PanicObj("attempt to divide by zero")
            ELSE OkObj(SignedInt(TruncDiv(left.num, right.num)))
      [] left.kind = "Float" /\ right.kind = "Float" -> OkObj(FloatDiv(left, right))
      [] IsNumber(left) /\ IsNumber(right) /\ left.kind # right.kind ->
            PanicObj("not implemented: division of disparate number types")
      [] OTHER -> ErrObj("IncompatibleTypes")

Primitive_modu(left, right, checks) ==
    CASE left.kind = "UnsignedInt" /\ right.kind = "UnsignedInt" ->
            IF right.num = 0
            THEN PanicObj("attempt to calculate the remainder with a divisor of zero")
            ELSE OkObj(UnsignedInt(left.num % right.num))
      [] left.kind = "SignedInt" /\ right.kind = "SignedInt" ->
            IF right.num = 0
            THEN PanicObj("attempt to calculate the remainder with a divisor of zero")
            ELSE OkObj(SignedInt(TruncRem(left.num, right.num)))
      [] left.kind = "Float" /\ right.kind = "Float" -> OkObj(FloatRem(left, right))
      [] IsNumber(left) /\ IsNumber(right) /\ left.kind # right.kind ->
            PanicObj("not implemented: modulus of disparate number types")
      [] OTHER -> ErrObj("IncompatibleTypes")

\* ------------------------------------------------------------------ tokens
\* A token is a sequence of one-character strings.
Digits == <<"0", "1", "2", "3", "4", "5", "6", "7", "8", "9">>
IsDigit(c) == \E i \in 1..Len(Digits) : Digits[i] = c
DigitVal(c) == (CHOOSE i \in 1..Len(Digits) : Digits[i] = c) - 1
AllDigits(s) == \A i \in 1..Len(s) : IsDigit(s[i])

RECURSIVE DecVal(_)
DecVal(s) == IF s = <<>> THEN 0 ELSE 10 * DecVal(SubSeq(s, 1, Len(s) - 1)) + DigitVal(s[Len(s)])

RECURSIVE Pow10(_)
Pow10(n) == IF n = 0 THEN 1 ELSE 10 * Pow10(n - 1)

\* Length of the longest prefix of s made of digits.
RECURSIVE DigitPrefix(_)
DigitPrefix(s) == IF s # <<>> /\ IsDigit(s[1]) THEN 1 + DigitPrefix(Tail(s)) ELSE 0

Drop(s, n) == SubSeq(s, n + 1, Len(s))

Some(o) == [some |-> TRUE, obj |-> o]
None == [some |-> FALSE, obj |-> NoObj]

\* str::parse::<usize>: an optional "+", then one or more decimal digits.  (A value
\* of 2^64 or more is an error; no token of the model is that long.)
attempt_parse_uint_literal(candidate) ==
    LET digits == IF candidate # <<>> /\ candidate[1] = "+" THEN Tail(candidate) ELSE candidate
    IN IF digits # <<>> /\ AllDigits(digits) THEN Some(UnsignedInt(DecVal(digits))) ELSE None

\* str::parse::<isize>: an optional "+" or "-", then one or more decimal digits.
attempt_parse_iint_literal(candidate) ==
    LET signed == candidate # <<>> /\ candidate[1] \in {"+", "-"}
        digits == IF signed THEN Tail(candidate) ELSE candidate
        value == DecVal(digits)
    IN IF digits # <<>> /\ AllDigits(digits)
       THEN Some(SignedInt(IF signed /\ candidate[1] = "-" THEN -value ELSE value))
       ELSE None

LowerCase(c) ==
    CASE c = "I" -> "i" [] c = "N" -> "n" [] c = "F" -> "f" [] c = "T" -> "t"
      [] c = "Y" -> "y" [] c = "A" -> "a" [] c = "E" -> "e" [] OTHER -> c
Lower(s) == [i \in 1..Len(s) |-> LowerCase(s[i])]

\* str::parse::<f64>: an optional sign, then inf / infinity / nan in any case, or
\* digits with an optional "." and more digits (one digit at least), then an
\* optional exponent: "e", an optional sign, one or more digits.
attempt_parse_float_literal(candidate) ==
    LET signed == candidate # <<>> /\ candidate[1] \in {"+", "-"}
        sgn == IF signed /\ candidate[1] = "-" THEN -1 ELSE 1
        body == IF signed THEN Tail(candidate) ELSE candidate
        nint == DigitPrefix(body)
        rest1 == Drop(body, nint)
        dotted == rest1 # <<>> /\ rest1[1] = "."
        nfrac == IF dotted THEN DigitPrefix(Tail(rest1)) ELSE 0
        rest3 == IF dotted THEN Drop(Tail(rest1), nfrac) ELSE rest1
        mant == DecVal(SubSeq(body, 1, nint) \o (IF dotted THEN SubSeq(Tail(rest1), 1, nfrac) ELSE <<>>))
        hasexp == rest3 # <<>> /\ LowerCase(rest3[1]) = "e"
        ebody == IF hasexp THEN Tail(rest3) ELSE <<>>
        esigned == ebody # <<>> /\ ebody[1] \in {"+", "-"}
        edigits == IF esigned THEN Tail(ebody) ELSE ebody
        exp == (IF esigned /\ ebody[1] = "-" THEN -1 ELSE 1) * DecVal(edigits) - nfrac
    IN CASE Lower(body) \in {<<"i", "n", "f">>, <<"i", "n", "f", "i", "n", "i", "t", "y">>} ->
                Some(Float(sgn, 0))
         [] Lower(body) = <<"n", "a", "n">> -> Some(Float(0, 0))
         [] nint + nfrac >= 1 /\ rest3 = <<>> ->
                Some(Float(sgn * mant, Pow10(nfrac)))
         [] nint + nfrac >= 1 /\ hasexp /\ edigits # <<>> /\ AllDigits(edigits) ->
                Some(IF exp >= 0 THEN Float(sgn * mant * Pow10(exp), 1)
                     ELSE Float(sgn * mant, Pow10(-exp)))
         [] OTHER -> None

\* ------------------------------------------------------------ main.rs words
WordOut(res, c) == [res |-> res, container |-> c]

prim_word_swap(c) ==
    IF Len(c) < 2 THEN WordOut(Err("StackUnderflow"), c)
    ELSE WordOut(Ok, <<c[2], c[1]>> \o Drop(c, 2))

\* store.get(0).cloned() is a copy of the StoreEntry value, inserted at the front.
prim_word_dup(c) ==
    IF Len(c) = 0 THEN WordOut(Err("StackUnderflow"), c)
    ELSE WordOut(Ok, <<c[1]>> \o c)

\* A drop that removes the oldest entry, from the back of the VecDeque.
prim_word_drop_oldest(c) ==
    IF c = <<>> THEN WordOut(Err("StackUnderflow"), c)
    ELSE WordOut(Ok, SubSeq(c, 1, Len(c) - 1))

prim_word_drop(c) ==
    IF Len(c) = 0 THEN WordOut(Err("StackUnderflow"), c)
    ELSE WordOut(Ok, Tail(c))

\* What an arithmetic word leaves after its two pop_front calls: the result is
\* pushed on Ok; on Err or panic the operands stay popped.
AfterPops(value, rest) ==
    CASE value.tag = "Ok" -> WordOut(Ok, <<value.obj>> \o rest)
      [] value.tag = "Err" -> WordOut(Err(value.err), rest)
      [] OTHER -> WordOut(Panic(value.err), rest)

\* An add that pops before it has looked at the depth.
prim_word_add_pop_first(c, checks) ==
    IF Len(c) < 2 THEN WordOut(Err("StackUnderflow"), Drop(c, Len(c)))
    ELSE AfterPops(Primitive_add(c[1], c[2], checks), Drop(c, 2))

\* left is the first pop_front (the top), right the second.
prim_word_add(c, checks) ==
    IF Len(c) < 2 THEN WordOut(Err("StackUnderflow"), c)
    ELSE AfterPops(Primitive_add(c[1], c[2], checks), Drop(c, 2))

prim_word_sub(c, checks) ==
    IF Len(c) < 2 THEN WordOut(Err("StackUnderflow"), c)
    ELSE AfterPops(Primitive_sub(c[1], c[2], checks), Drop(c, 2))

\* A mul that reads its second operand in place instead of popping it.
prim_word_mul_one_pop(c, checks) ==
    IF Len(c) < 2 THEN WordOut(Err("StackUnderflow"), c)
    ELSE AfterPops(Primitive_mul(c[1], c[2], checks), Drop(c, 1))

prim_word_mul(c, checks) ==
    IF Len(c) < 2 THEN WordOut(Err("StackUnderflow"), c)
    ELSE AfterPops(Primitive_mul(c[1], c[2], checks), Drop(c, 2))

prim_word_div(c, checks) ==
    IF Len(c) < 2 THEN WordOut(Err("StackUnderflow"), c)
    ELSE AfterPops(Primitive_div(c[1], c[2], checks), Drop(c, 2))

prim_word_mod(c, checks) ==
    IF Len(c) < 2 THEN WordOut(Err("StackUnderflow"), c)
    ELSE AfterPops(Primitive_modu(c[1], c[2], checks), Drop(c, 2))

\* A Word; implementation is the name of the native function of a
\* WordImplementation::Primitive, or "WordSequence" / "Constant".
Word(hidden, implementation) ==
    [hidden |-> hidden, immediate |-> FALSE, implementation |-> implementation]

PrimitiveImplementations ==
    {"prim_word_drop", "prim_word_dup", "prim_word_swap", "prim_word_add",
     "prim_word_sub", "prim_word_mul", "prim_word_div", "prim_word_mod"}

ArithmeticImplementations ==
    {"prim_word_add", "prim_word_sub", "prim_word_mul", "prim_word_div", "prim_word_mod"}

\* prim_impl(&mut self.store)
CallPrimitive(implementation, c, checks) ==
    CASE implementation = "prim_word_drop" -> prim_word_drop(c)
      [] implementation = "prim_word_dup" -> prim_word_dup(c)
      [] implementation = "prim_word_swap" -> prim_word_swap(c)
      [] implementation = "prim_word_add" -> prim_word_add(c, checks)
      [] implementation = "prim_word_sub" -> prim_word_sub(c, checks)
      [] implementation = "prim_word_mul" -> prim_word_mul(c, checks)
      [] implementation = "prim_word_div" -> prim_word_div(c, checks)
      [] implementation = "prim_word_mod" -> prim_word_mod(c, checks)

\* A define_word that starts the identifier's list afresh on every call.
define_word_overwriting(dict, identifier, word) ==
    [x \in DOMAIN dict \cup {identifier} |-> IF x = identifier THEN <<word>> ELSE dict[x]]

\* define_word: insert an empty list on first use, then push the word at its end.
define_word(dict, identifier, word) ==
    LET present == IF identifier \in DOMAIN dict THEN dict ELSE dict @@ (identifier :> <<>>)
    IN [present EXCEPT ![identifier] = Append(@, word)]

T_drop == <<"d", "r", "o", "p">>
T_dup == <<"d", "u", "p">>
T_swap == <<"s", "w", "a", "p">>
T_add == <<"a", "d", "d">>
T_sub == <<"s", "u", "b">>
T_mul == <<"m", "u", "l">>
T_div == <<"d", "i", "v">>
T_mod == <<"m", "o", "d">>

EmptyDictionary == [identifier \in {} |-> <<>>]

populate_primitive_words(dict) ==
    LET d1 == define_word(dict, T_drop, Word(FALSE, "prim_word_drop"))
        d2 == define_word(d1, T_dup, Word(FALSE, "prim_word_dup"))
        d3 == define_word(d2, T_swap, Word(FALSE, "prim_word_swap"))
        d4 == define_word(d3, T_add, Word(FALSE, "prim_word_add"))
        d5 == define_word(d4, T_sub, Word(FALSE, "prim_word_sub"))
        d6 == define_word(d5, T_mul, Word(FALSE, "prim_word_mul"))
        d7 == define_word(d6, T_div, Word(FALSE, "prim_word_div"))
    IN define_word(d7, T_mod, Word(FALSE, "prim_word_mod"))

\* A position that takes the first entry whether or not it is hidden.
position_of_first(impls) == IF impls = <<>> THEN 0 ELSE 1

\* impls.iter().position(|candidate| !candidate.hidden): the index of the first
\* entry from the front of the list that is not hidden; 0 when there is none.
position_not_hidden(impls) ==
    IF \E i \in 1..Len(impls) : ~impls[i].hidden
    THEN CHOOSE i \in 1..Len(impls) :
            ~impls[i].hidden /\ \A j \in 1..(i - 1) : impls[j].hidden
    ELSE 0

\* The same chain with the signed parse tried before the unsigned one.
parse_literal_signed_first(word_str) ==
    IF attempt_parse_iint_literal(word_str).some THEN attempt_parse_iint_literal(word_str)
    ELSE IF attempt_parse_uint_literal(word_str).some THEN attempt_parse_uint_literal(word_str)
    ELSE attempt_parse_float_literal(word_str)

\* attempt_parse_uint_literal(..).or_else(iint).or_else(float)
parse_literal(word_str) ==
    IF attempt_parse_uint_literal(word_str).some THEN attempt_parse_uint_literal(word_str)
    ELSE IF attempt_parse_iint_literal(word_str).some THEN attempt_parse_iint_literal(word_str)
    ELSE attempt_parse_float_literal(word_str)

FeedOut(result, executed, word_result, c) ==
    [result |-> result, executed |-> executed, word_result |-> word_result, container |-> c]

\* What Runtime::feed_word returns from the value its chain has built: the final
\* .map(|_| ()) drops the inner WordResult, so a word that ran gives Ok(()).
feed_word_return(word_result) ==
    IF word_result.tag = "Panic" THEN word_result ELSE Ok

\* self.dictionary.get(word_str), then the position of the first entry that is not
\* hidden: the index into the definition list of the word feed_word selects, 0 when
\* the identifier is unknown or all its definitions are hidden.
selected_word_idx(word_str, dict) ==
    IF word_str \in DOMAIN dict THEN position_not_hidden(dict[word_str]) ELSE 0

\* A feed_word that tries the token as a number first and looks it up in the
\* dictionary only when it is none.
feed_word_outcome_literal_first(word_str, dict, c, checks) ==
    LET word_idx == selected_word_idx(word_str, dict)
        entry == parse_literal(word_str)
    IN IF entry.some
       THEN FeedOut(Ok, "literal", NoResult, <<entry.obj>> \o c)
       ELSE IF word_idx # 0
            THEN LET word == dict[word_str][word_idx]
                 IN IF word.implementation \in PrimitiveImplementations
                    THEN LET out == CallPrimitive(word.implementation, c, checks)
                         IN FeedOut(feed_word_return(out.res), word.implementation, out.res,
                                    out.container)
                    ELSE FeedOut(Panic("not implemented: runtime for non-Primitive WordImplementations"),
                                 word.implementation, NoResult, c)
            ELSE FeedOut(NoWordsByName(word_str), "none", NoResult, c)

\* A feed_word whose literals go to the back of the VecDeque (push_back).
feed_word_outcome_push_back(word_str, dict, c, checks) ==
    LET word_idx == selected_word_idx(word_str, dict)
    IN IF word_idx # 0
       THEN LET word == dict[word_str][word_idx]
            IN IF word.implementation \in PrimitiveImplementations
               THEN LET out == CallPrimitive(word.implementation, c, checks)
                    IN FeedOut(feed_word_return(out.res), word.implementation, out.res,
                               out.container)
               ELSE FeedOut(Panic("not implemented: runtime for non-Primitive WordImplementations"),
                            word.implementation, NoResult, c)
       ELSE LET entry == parse_literal(word_str)
            IN IF entry.some
               THEN FeedOut(Ok, "literal", NoResult, c \o <<entry.obj>>)
               ELSE FeedOut(NoWordsByName(word_str), "none", NoResult, c)

\* Runtime::feed_word on (dictionary, store): the result returned, the native
\* function run (if any) with what it returned, and the store left behind.
feed_word_outcome(word_str, dict, c, checks) ==
    LET word_idx == selected_word_idx(word_str, dict)
    IN IF word_idx # 0
       THEN LET word == dict[word_str][word_idx]
            IN IF word.implementation \in PrimitiveImplementations
               THEN LET out == CallPrimitive(word.implementation, c, checks)
                    IN FeedOut(feed_word_return(out.res), word.implementation, out.res,
                               out.container)
               ELSE FeedOut(Panic("not implemented: runtime for non-Primitive WordImplementations"),
                            word.implementation, NoResult, c)
       ELSE LET entry == parse_literal(word_str)
            IN IF entry.some
               THEN FeedOut(Ok, "literal", NoResult, <<entry.obj>> \o c)
               ELSE FeedOut(NoWordsByName(word_str), "none", NoResult, c)

\* ----------------------------------------------------------- store.rs Store
\* The outcome of a Store method: its result, the Vec it leaves, and the handles
\* it hands back (references for push/peek/dup/swap/rot, the owned Rc for pop).
StoreOut(res, st, handles) == [res |-> res, store |-> st, handles |-> handles]

\* Store::npeek(n): self.0.get(self.0.len() - 1 - n).  The subtraction is on usize:
\* when n >= len it panics under overflow checks and otherwise wraps to an index
\* past the end, for which get returns None.
Store_npeek(st, n, checks) ==
    IF Len(st) - 1 - n < 0
    THEN IF checks THEN StoreOut(Panic("attempt to subtract with overflow"), st, <<>>)
         ELSE StoreOut(Err("StackUnderflow"), st, <<>>)
    ELSE StoreOut(Ok, st, <<st[Len(st) - n]>>)

Store_peek(st, checks) == Store_npeek(st, 0, checks)

\* Store::push_boxed: self.0.push(item); self.peek()
Store_push_boxed(st, item, checks) == Store_peek(Append(st, item), checks)

\* Store::len: self.0.len()
Store_len(st) == Len(st)

\* A pop that hands out the top handle and leaves it on the Store as well.
Store_pop_peeking(st) ==
    IF st = <<>> THEN StoreOut(Err("StackUnderflow"), st, <<>>)
    ELSE StoreOut(Ok, st, <<st[Len(st)]>>)

\* A pop that takes the oldest entry, from the other end of the Vec.
Store_pop_oldest(st) ==
    IF st = <<>> THEN StoreOut(Err("StackUnderflow"), st, <<>>)
    ELSE StoreOut(Ok, Tail(st), <<st[1]>>)

\* Store::pop: self.0.pop().ok_or(StackUnderflow)
Store_pop(st) ==
    IF st = <<>> THEN StoreOut(Err("StackUnderflow"), st, <<>>)
    ELSE StoreOut(Ok, SubSeq(st, 1, Len(st) - 1), <<st[Len(st)]>>)

\* A dup that clones the handle one below the top (npeek(1)) when there is one.
Store_dup_below(st, checks) ==
    LET top == Store_npeek(st, IF Len(st) >= 2 THEN 1 ELSE 0, checks)
    IN IF top.res # Ok THEN top ELSE Store_push_boxed(st, top.handles[1], checks)

\* Store::dup: self.push_boxed(self.peek()?.clone())
Store_dup(st, checks) ==
    LET top == Store_peek(st, checks)
    IN IF top.res # Ok THEN top ELSE Store_push_boxed(st, top.handles[1], checks)

\* A swap that pushes a second clone of the old top where the old second belongs.
Store_swap_copying(st, checks) ==
    LET guard == Store_npeek(st, 1, checks)
    IN IF guard.res # Ok THEN guard
       ELSE LET old_top == st[Len(st)]
                after == SubSeq(st, 1, Len(st) - 2) \o <<old_top, old_top>>
            IN StoreOut(Ok, after,
                        Store_npeek(after, 1, checks).handles \o Store_peek(after, checks).handles)

\* A swap that pushes the two popped handles back in the order they had.
Store_swap_in_place(st, checks) ==
    LET guard == Store_npeek(st, 1, checks)
    IN IF guard.res # Ok THEN guard
       ELSE StoreOut(Ok, st, Store_npeek(st, 1, checks).handles \o Store_peek(st, checks).handles)

\* Store::swap: npeek(1)?, two pops, push_boxed(old_top), push_boxed(old_second),
\* then Ok((npeek(1)?, peek()?)).
Store_swap(st, checks) ==
    LET guard == Store_npeek(st, 1, checks)
    IN IF guard.res # Ok THEN guard
       ELSE LET old_top == st[Len(st)]
                old_second == st[Len(st) - 1]
                after == SubSeq(st, 1, Len(st) - 2) \o <<old_top, old_second>>
            IN StoreOut(Ok, after,
                        Store_npeek(after, 1, checks).handles \o Store_peek(after, checks).handles)

\* A rot that exchanges the top two handles and leaves the third where it is.
Store_rot_top_two(st, checks) ==
    LET guard == Store_npeek(st, 2, checks)
    IN IF guard.res # Ok THEN guard
       ELSE LET old_top == st[Len(st)]
                old_second == st[Len(st) - 1]
                after == SubSeq(st, 1, Len(st) - 2) \o <<old_top, old_second>>
            IN StoreOut(Ok, after,
                        Store_npeek(after, 2, checks).handles
                            \o Store_npeek(after, 1, checks).handles
                            \o Store_peek(after, checks).handles)

\* A rot that turns the top three the other way: the top goes to third place.
Store_rot_downwards(st, checks) ==
    LET guard == Store_npeek(st, 2, checks)
    IN IF guard.res # Ok THEN guard
       ELSE LET old_top == st[Len(st)]
                old_second == st[Len(st) - 1]
                old_third == st[Len(st) - 2]
                after == SubSeq(st, 1, Len(st) - 3) \o <<old_top, old_third, old_second>>
            IN StoreOut(Ok, after,
                        Store_npeek(after, 2, checks).handles
                            \o Store_npeek(after, 1, checks).handles
                            \o Store_peek(after, checks).handles)

\* Store::rot: npeek(2)?, three pops, push_boxed(old_second), push_boxed(old_top),
\* push_boxed(old_third), then Ok((npeek(2)?, npeek(1)?, peek()?)).
Store_rot(st, checks) ==
    LET guard == Store_npeek(st, 2, checks)
    IN IF guard.res # Ok THEN guard
       ELSE LET old_top == st[Len(st)]
                old_second == st[Len(st) - 1]
                old_third == st[Len(st) - 2]
                after == SubSeq(st, 1, Len(st) - 3) \o <<old_second, old_top, old_third>>
            IN StoreOut(Ok, after,
                        Store_npeek(after, 2, checks).handles
                            \o Store_npeek(after, 1, checks).handles
                            \o Store_peek(after, checks).handles)

\* A call on the store.rs Store: the method, its argument (the index n of npeek,
\* the Object item of push), what it returned.
Ret(op, n, res, handles) ==
    [op |-> op, n |-> n, item |-> NoObj, res |-> res, handles |-> handles]
RetOfItem(op, item, res, handles) == [Ret(op, 0, res, handles) EXCEPT !.item = item]
NoRet == Ret("none", 0, NoResult, <<>>)

\* Rc::new: an allocation distinct from every live one (the lowest free handle).
EmptyHeap == [h \in {} |-> NoObj]
StoredObject_new(hp) == CHOOSE h \in 1..(Cardinality(DOMAIN hp) + 1) :
                            h \notin DOMAIN hp /\ \A g \in 1..(h - 1) : g \in DOMAIN hp

\* An Rc allocation lives while a Store slot or the caller holds a handle to it.
Range(f) == {f[i] : i \in DOMAIN f}
Live(hp, st, owned) == [h \in (DOMAIN hp) \cap (Range(st) \cup Range(owned)) |-> hp[h]]

\* ------------------------------------------------------- main.rs state machine
T_abc == <<"a", "b", "c">>
T_inc == <<"i", "n", "c">>
T_rot == <<"r", "o", "t">>

\* Tokens fed under Spec: the eight primitive names, literals, and non-words.
LiteralTokens ==
    {<<"0">>, <<"2">>, <<"4", "2">>, <<"-", "1">>, <<"-", "3">>, <<"3", ".", "5">>}
Tokens ==
    {T_drop, T_dup, T_swap, T_add, T_sub, T_mul, T_div, T_mod}
        \cup LiteralTokens \cup {T_abc, T_rot, <<"-">>}

\* Entries the tests place on the store directly (push_uint_to_stack and the like).
PushItems == {Boolean(TRUE)}

LiteralObjs == {parse_literal(t).obj : t \in {u \in LiteralTokens : parse_literal(u).some}}

\* The values the model keeps on the store: what a token or a direct push puts
\* there, and integer results of magnitude MaxVal at most.
InRange(o) == o.kind \in {"UnsignedInt", "SignedInt"} /\ Abs(o.num) <= MaxVal
Kept(o) == InRange(o) \/ o \in LiteralObjs \/ o \in PushItems

\* Arithmetic is explored on operands whose value the encoding carries exactly:
\* finite floats and unsigned integers that have not wrapped.
Exact(o) == o.den # 0 /\ ~(o.kind = "UnsignedInt" /\ o.num < 0)

OperandsExact(word_str, dict, c) ==
    LET word_idx == selected_word_idx(word_str, dict)
    IN (/\ word_idx # 0
        /\ dict[word_str][word_idx].implementation \in ArithmeticImplementations
        /\ Len(c) >= 2) => (Exact(c[1]) /\ Exact(c[2]))

Explored(out) ==
    /\ Len(out.container) <= MaxDepth
    /\ \A i \in 1..Len(out.container) : Kept(out.container[i])

\* A call on the main.rs Runtime or its Store: what was called with which token,
\* the native function it ran and what that returned, its own result, the
\* StoreEntry value it handed back (pop_front only), and what the last feed_word
\* call it made returned (main only).
Call(op, word_str, executed, word_result, result) ==
    [op |-> op, word_str |-> word_str, executed |-> executed,
     word_result |-> word_result, result |-> result, entry |-> NoObj,
     fed |-> NoResult]

NoCall == Call("none", <<>>, "none", NoResult, NoResult)

\* A panic ends the process: nothing runs after it.
Running == call.result.tag # "Panic"

\* No call of the bootstrap parse_string has been made.
NotParsing == [result |-> NoResult]

Init ==
    /\ overflow_checks \in BOOLEAN
    /\ container = <<>>
    /\ dictionary = populate_primitive_words(EmptyDictionary)
    /\ call = NoCall
    /\ store = <<>>
    /\ heap = EmptyHeap
    /\ ret = NoRet
    /\ parser = NotParsing

\* runtime.feed_word(word_str)
feed_word(word_str) ==
    /\ Running
    /\ OperandsExact(word_str, dictionary, container)
    /\ LET out == feed_word_outcome(word_str, dictionary, container, overflow_checks)
       IN /\ Explored(out)
          /\ container' = out.container
          /\ call' = Call("feed_word", word_str, out.executed, out.word_result, out.result)
    /\ UNCHANGED <<overflow_checks, dictionary, storeVars, parser>>

\* runtime.store.push_front(item)
push_front(item) ==
    /\ Running
    /\ Len(container) < MaxDepth
    /\ container' = <<item>> \o container
    /\ call' = Call("push_front", <<>>, "none", NoResult, Ok)
    /\ UNCHANGED <<overflow_checks, dictionary, storeVars, parser>>

\* runtime.store.pop_front()
pop_front ==
    /\ Running
    /\ IF container = <<>>
       THEN /\ container' = container
            /\ call' = Call("pop_front", <<>>, "none", NoResult, Err("StackUnderflow"))
       ELSE /\ container' = Tail(container)
            /\ call' = [Call("pop_front", <<>>, "none", NoResult, Ok)
                            EXCEPT !.entry = container[1]]
    /\ UNCHANGED <<overflow_checks, dictionary, storeVars, parser>>

\* Words a caller defines beside the primitives, and the identifiers it uses.
DefinedIdentifiers == {T_inc, <<"2">>}
DefinedWords ==
    {Word(h, i) : h \in BOOLEAN, i \in {"prim_word_dup", "prim_word_drop", "WordSequence"}}

RECURSIVE SumLen(_, _)
SumLen(dict, ids) ==
    IF ids = {} THEN 0
    ELSE LET id == CHOOSE x \in ids : TRUE
         IN Len(dict[id]) + SumLen(dict, ids \ {id})

UserDefinitions(dict) == SumLen(dict, DOMAIN dict) - 8

\* define_word(&mut runtime.dictionary, identifier, word)
Define(identifier, word) ==
    /\ Running
    /\ UserDefinitions(dictionary) < MaxDefs
    /\ dictionary' = define_word(dictionary, identifier, word)
    /\ call' = Call("define_word", identifier, "none", NoResult, Ok)
    /\ UNCHANGED <<overflow_checks, container, storeVars, parser>>

Next ==
    \/ \E word_str \in Tokens : feed_word(word_str)
    \/ \E item \in PushItems : push_front(item)
    \/ pop_front

Spec == Init /\ [][Next]_vars

\* Tokens fed under SpecDict, where words are defined while the program runs.
DictTokens == {T_inc, <<"2">>, T_dup, T_drop, T_abc}

NextDict ==
    \/ \E word_str \in DictTokens : feed_word(word_str)
    \/ \E identifier \in DefinedIdentifiers, word \in DefinedWords : Define(identifier, word)

SpecDict == Init /\ [][NextDict]_vars

\* --------------------------------------------- main.rs Store at its capacity
\* const MAX_STORE_SIZE: the capacity Store::default allocates.
MAX_STORE_SIZE == 4096

\* How far below MAX_STORE_SIZE the caller's loop of pushes leaves the Store.
Headroom == 2

\* Tokens fed to the nearly full Store: literals and the word that pushes.
FullTokens == {<<"2">>, <<"0">>, <<"-", "1">>, T_dup}

\* for _ in 0..n { runtime.store.push_front(item) } on the fresh Runtime
push_front_times(n, item) ==
    /\ call = NoCall
    /\ container = <<>>
    /\ container' = [i \in 1..n |-> item]
    /\ call' = Call("push_front_times", <<>>, "none", NoResult, Ok)
    /\ UNCHANGED <<overflow_checks, dictionary, storeVars, parser>>

\* runtime.store.push_front(item), explored up to one entry past MAX_STORE_SIZE
push_front_full(item) ==
    /\ Running
    /\ Len(container) \in (MAX_STORE_SIZE - Headroom)..MAX_STORE_SIZE
    /\ container' = <<item>> \o container
    /\ call' = Call("push_front", <<>>, "none", NoResult, Ok)
    /\ UNCHANGED <<overflow_checks, dictionary, storeVars, parser>>

\* runtime.feed_word(word_str), explored up to one entry past MAX_STORE_SIZE
feed_word_full(word_str) ==
    /\ Running
    /\ Len(container) \in (MAX_STORE_SIZE - Headroom)..MAX_STORE_SIZE
    /\ LET out == feed_word_outcome(word_str, dictionary, container, overflow_checks)
       IN /\ container' = out.container
          /\ call' = Call("feed_word", word_str, out.executed, out.word_result, out.result)
    /\ UNCHANGED <<overflow_checks, dictionary, storeVars, parser>>

NextFull ==
    \/ \E item \in PushItems : push_front_times(MAX_STORE_SIZE - Headroom, item)
    \/ \E item \in PushItems : push_front_full(item)
    \/ \E word_str \in FullTokens : feed_word_full(word_str)

SpecFull == Init /\ [][NextFull]_vars

\* ------------------------------------------------------------ main.rs REPL
\* const WORD_SPLITTING_CHARS
WORD_SPLITTING_CHARS == {" ", "\t", "\n"}

\* char::is_whitespace on the characters the lines of the model are made of
White_Space == {" ", "\t", "\n", "\r"}

\* stdin_buffer.trim().is_empty()
trim_is_empty(buffer) == \A i \in 1..Len(buffer) : buffer[i] \in White_Space

\* stdin_buffer.split_once(&WORD_SPLITTING_CHARS): the text before and after the
\* first splitting character, or None when there is none.
split_once(buffer) ==
    LET at == {i \in 1..Len(buffer) : buffer[i] \in WORD_SPLITTING_CHARS}
    IN IF at = {} THEN [some |-> FALSE, first_word |-> <<>>, rest |-> <<>>]
       ELSE LET i == CHOOSE j \in at : \A k \in at : j <= k
            IN [some |-> TRUE, first_word |-> SubSeq(buffer, 1, i - 1),
                rest |-> SubSeq(buffer, i + 1, Len(buffer))]

\* Result::unwrap: an Err becomes a panic.
unwrap(result) ==
    IF result.tag = "Err" THEN Panic("called Result::unwrap() on an Err value")
    ELSE result

\* The inner loop never reaches its break: it feeds the same buffer over and
\* over, and main never returns to read_line.
Diverges == [tag |-> "Diverges", err |-> "", name |-> <<>>]

ReplOut(result, c, fed) == [result |-> result, container |-> c, fed |-> fed]

\* The word the next turn of the inner loop feeds: the text before the first
\* splitting character, or the whole buffer when it has none.
next_word(stdin_buffer) ==
    LET split == split_once(stdin_buffer)
    IN IF split.some THEN split.first_word ELSE stdin_buffer

\* The inner loop of main on one line: feed the text before the first splitting
\* character and go on with the rest, until the buffer is empty.  A buffer
\* without a splitting character is fed whole and then stays as it is.
RECURSIVE main_inner_loop(_, _, _, _, _)
RECURSIVE main_after_feed(_, _, _, _)

main_inner_loop(stdin_buffer, dict, c, checks, fed) ==
    IF Len(stdin_buffer) = 0 THEN ReplOut(Ok, c, fed)
    ELSE main_after_feed(split_once(stdin_buffer), dict, checks,
                         feed_word_outcome(next_word(stdin_buffer), dict, c, checks))

\* What follows runtime.feed_word(..) in the turn: unwrap, and for a buffer that
\* was split, stdin_buffer = rest.into() and the next turn.
main_after_feed(split, dict, checks, out) ==
    IF unwrap(out.result).tag = "Panic"
    THEN ReplOut(unwrap(out.result), out.container, out.result)
    ELSE IF split.some
         THEN main_inner_loop(split.rest, dict, out.container, checks, out.result)
         ELSE ReplOut(Diverges, out.container, out.result)

SP == <<" ">>
NL == <<"\n">>

\* Lines read_line hands to main: literals, words, an unknown word alone and
\* between literals, blank lines, two spaces in a row, and a last line that
\* the input ends without a newline.
StdinLines ==
    {<<"2">> \o SP \o <<"4", "2">> \o NL,
     <<"-", "1">> \o NL,
     <<"0">> \o NL,
     T_abc \o NL,
     <<"0">> \o SP \o T_abc \o SP \o <<"2">> \o NL,
     T_drop \o NL,
     T_dup \o NL,
     NL,
     SP \o <<"\t">> \o NL,
     <<"2">> \o SP \o SP \o <<"0">> \o NL,
     <<"2">>}

\* main is in its outer loop, about to call read_line.
ReplRunning == Running /\ call.result.tag # "Diverges" /\ call.op # "main_eof"

\* One turn of the outer loop of main on a line read_line returned.
main_line(stdin_buffer) ==
    /\ ReplRunning
    /\ LET out == IF trim_is_empty(stdin_buffer) THEN ReplOut(Ok, container, NoResult)
                  ELSE main_inner_loop(stdin_buffer, dictionary, container,
                                       overflow_checks, NoResult)
       IN /\ Explored(out)
          /\ container' = out.container
          /\ call' = [Call("main", stdin_buffer, "none", NoResult, out.result)
                          EXCEPT !.fed = out.fed]
    /\ UNCHANGED <<overflow_checks, dictionary, storeVars, parser>>

\* read_line returned Ok(0): main returns Ok(()).
main_eof ==
    /\ ReplRunning
    /\ container' = container
    /\ call' = Call("main_eof", <<>>, "none", NoResult, Ok)
    /\ UNCHANGED <<overflow_checks, dictionary, storeVars, parser>>

NextRepl ==
    \/ \E stdin_buffer \in StdinLines : main_line(stdin_buffer)
    \/ main_eof

SpecRepl == Init /\ [][NextRepl]_vars

\* ------------------------------------------------------ store.rs state machine
\* Deepest store.rs Store the model explores.
MaxLen == 3

\* Objects pushed on the store.rs Store.
StoreItems == {UnsignedInt(1), SignedInt(1)}

StoreRunning == ret.res.tag # "Panic"

\* The caller owns the Rc that pop returned until it makes its next call; the
\* references the other methods return borrow from the Store.
Owned == IF ret.op = "pop" THEN ret.handles ELSE <<>>

\* A push that interns: when a slot already holds an equal Object it pushes a
\* clone of that handle instead of a new allocation.
push_interning(item) ==
    /\ StoreRunning
    /\ Len(store) < MaxLen
    /\ LET equal == {g \in Range(store) : heap[g] = item}
           h == IF equal = {} THEN StoredObject_new(heap) ELSE CHOOSE g \in equal : TRUE
           out == Store_push_boxed(store, h, overflow_checks)
       IN /\ store' = out.store
          /\ heap' = Live(heap @@ (h :> item), out.store, <<>>)
          /\ ret' = RetOfItem("push", item, out.res, out.handles)
    /\ UNCHANGED <<overflow_checks, mainVars, parser>>

\* store.push(item)
push(item) ==
    /\ StoreRunning
    /\ Len(store) < MaxLen
    /\ LET h == StoredObject_new(heap)
           out == Store_push_boxed(store, h, overflow_checks)
       IN /\ store' = out.store
          /\ heap' = Live(heap @@ (h :> item), out.store, <<>>)
          /\ ret' = RetOfItem("push", item, out.res, out.handles)
    /\ UNCHANGED <<overflow_checks, mainVars, parser>>

\* store.push_boxed(item), with the handle the caller owns
push_boxed(item) ==
    /\ StoreRunning
    /\ Len(store) < MaxLen
    /\ LET out == Store_push_boxed(store, item, overflow_checks)
       IN /\ store' = out.store
          /\ heap' = Live(heap, out.store, <<>>)
          /\ ret' = Ret("push_boxed", 0, out.res, out.handles)
    /\ UNCHANGED <<overflow_checks, mainVars, parser>>

\* store.pop()
pop ==
    /\ StoreRunning
    /\ LET out == Store_pop(store)
       IN /\ store' = out.store
          /\ heap' = Live(heap, out.store, out.handles)
          /\ ret' = Ret("pop", 0, out.res, out.handles)
    /\ UNCHANGED <<overflow_checks, mainVars, parser>>

\* store.npeek(n); store.peek() is npeek(0)
npeek(n) ==
    /\ StoreRunning
    /\ LET out == Store_npeek(store, n, overflow_checks)
       IN /\ store' = out.store
          /\ heap' = Live(heap, out.store, <<>>)
          /\ ret' = Ret("npeek", n, out.res, out.handles)
    /\ UNCHANGED <<overflow_checks, mainVars, parser>>

\* store.dup()
dup ==
    /\ StoreRunning
    /\ LET out == Store_dup(store, overflow_checks)
       IN /\ Len(out.store) <= MaxLen
          /\ store' = out.store
          /\ heap' = Live(heap, out.store, <<>>)
          /\ ret' = Ret("dup", 0, out.res, out.handles)
    /\ UNCHANGED <<overflow_checks, mainVars, parser>>

\* store.swap()
swap ==
    /\ StoreRunning
    /\ LET out == Store_swap(store, overflow_checks)
       IN /\ store' = out.store
          /\ heap' = Live(heap, out.store, <<>>)
          /\ ret' = Ret("swap", 0, out.res, out.handles)
    /\ UNCHANGED <<overflow_checks, mainVars, parser>>

\* store.rot()
rot ==
    /\ StoreRunning
    /\ LET out == Store_rot(store, overflow_checks)
       IN /\ store' = out.store
          /\ heap' = Live(heap, out.store, <<>>)
          /\ ret' = Ret("rot", 0, out.res, out.handles)
    /\ UNCHANGED <<overflow_checks, mainVars, parser>>

NextStore ==
    \/ \E item \in StoreItems : push(item)
    \/ \E item \in Range(Owned) : push_boxed(item)
    \/ pop
    \/ \E n \in 0..MaxLen : npeek(n)
    \/ dup
    \/ swap
    \/ rot

SpecStore == Init /\ [][NextStore]_vars

\* ------------------------------------------ store.rs Store, calls in a row
\* Most calls of one method a caller makes in a row.
MaxTimes == 3

\* store.swap()?, k times over: the first failure ends the run, as `?` does,
\* and the caller keeps what the last call returned.
RECURSIVE Store_swap_times(_, _, _)
Store_swap_times(st, k, checks) ==
    LET first == Store_swap(st, checks)
    IN IF first.res # Ok \/ k <= 1 THEN first
       ELSE Store_swap_times(first.store, k - 1, checks)

\* store.rot()?, k times over.
RECURSIVE Store_rot_times(_, _, _)
Store_rot_times(st, k, checks) ==
    LET first == Store_rot(st, checks)
    IN IF first.res # Ok \/ k <= 1 THEN first
       ELSE Store_rot_times(first.store, k - 1, checks)

swap_times(k) ==
    /\ StoreRunning
    /\ LET out == Store_swap_times(store, k, overflow_checks)
       IN /\ store' = out.store
          /\ heap' = Live(heap, out.store, <<>>)
          /\ ret' = Ret("swap_times", k, out.res, out.handles)
    /\ UNCHANGED <<overflow_checks, mainVars, parser>>

rot_times(k) ==
    /\ StoreRunning
    /\ LET out == Store_rot_times(store, k, overflow_checks)
       IN /\ store' = out.store
          /\ heap' = Live(heap, out.store, <<>>)
          /\ ret' = Ret("rot_times", k, out.res, out.handles)
    /\ UNCHANGED <<overflow_checks, mainVars, parser>>

NextTimes ==
    \/ \E item \in StoreItems : push(item)
    \/ pop
    \/ dup
    \/ \E k \in 1..MaxTimes : swap_times(k)
    \/ \E k \in 1..MaxTimes : rot_times(k)

SpecTimes == Init /\ [][NextTimes]_vars

\* ------------------------------------------- main.rs arithmetic, end to end
\* Whole programs of integer literals and arithmetic words, on a deeper store and
\* a wider range of values than Spec explores.
ArithDepth == 3
ArithVal == 4
ArithTokens == {<<"2">>, <<"-", "1">>, T_add, T_sub, T_mul, T_div, T_mod}

ArithExplored(out) ==
    /\ Len(out.container) <= ArithDepth
    /\ \A i \in 1..Len(out.container) : Abs(out.container[i].num) <= ArithVal

\* runtime.feed_word(word_str)
feed_arith(word_str) ==
    /\ Running
    /\ OperandsExact(word_str, dictionary, container)
    /\ LET out == feed_word_outcome(word_str, dictionary, container, overflow_checks)
       IN /\ ArithExplored(out)
          /\ container' = out.container
          /\ call' = Call("feed_word", word_str, out.executed, out.word_result, out.result)
    /\ UNCHANGED <<overflow_checks, dictionary, storeVars, parser>>

NextArith == \E word_str \in ArithTokens : feed_arith(word_str)

SpecArith == Init /\ [][NextArith]_vars

\* --------------------------------------------------- runtime.rs arithmetic
\* object.rs Object::Float32 / Object::Float64.  The values the model carries are
\* fractions with a small power-of-two denominator, which f32 and f64 both hold
\* exactly, so `x as f64` keeps the value and changes the kind.
InKind(kind, o) == [o EXCEPT !.kind = kind]
Float32(n, d) == InKind("Float32", Float(n, d))
Float64(n, d) == InKind("Float64", Float(n, d))
IsFloat(o) == o.kind \in {"Float32", "Float64"}
BothFloat32(l, r) == l.kind = "Float32" /\ r.kind = "Float32"
\* (Float32, Float64), (Float64, Float32) or (Float64, Float64)
WidenedPair(l, r) == IsFloat(l) /\ IsFloat(r) /\ ~BothFloat32(l, r)

\* isize arithmetic on values far from the ends of the range.
IsizeResult(x) == OkObj(SignedInt(x))

\* The same match with a Float32/Float64 pair computed in the kind of the left operand.
match_add_left_kind(left, right, checks) ==
    CASE left.kind = "SignedInt" /\ right.kind = "SignedInt" -> IsizeResult(left.num + right.num)
      [] left.kind = "UnsignedInt" /\ right.kind = "UnsignedInt" ->
            UsizeResult(left.num + right.num, checks, "attempt to add with overflow")
      [] IsFloat(left) /\ IsFloat(right) -> OkObj(InKind(left.kind, FloatAdd(left, right)))
      [] OTHER -> ErrObj("IncompatibleTypes")

\* The match on (*left, *right) in prim_word_add.
match_add(left, right, checks) ==
    CASE left.kind = "SignedInt" /\ right.kind = "SignedInt" -> IsizeResult(left.num + right.num)
      [] left.kind = "UnsignedInt" /\ right.kind = "UnsignedInt" ->
            UsizeResult(left.num + right.num, checks, "attempt to add with overflow")
      [] BothFloat32(left, right) -> OkObj(InKind("Float32", FloatAdd(left, right)))
      [] WidenedPair(left, right) -> OkObj(InKind("Float64", FloatAdd(left, right)))
      [] OTHER -> ErrObj("IncompatibleTypes")

\* The match on (*subtract_from, *to_subtract) in prim_word_sub.
match_sub(subtract_from, to_subtract, checks) ==
    CASE subtract_from.kind = "SignedInt" /\ to_subtract.kind = "SignedInt" ->
            IsizeResult(subtract_from.num - to_subtract.num)
      [] subtract_from.kind = "UnsignedInt" /\ to_subtract.kind = "UnsignedInt" ->
            UsizeResult(subtract_from.num - to_subtract.num, checks,
                        "attempt to subtract with overflow")
      [] BothFloat32(subtract_from, to_subtract) ->
            OkObj(InKind("Float32", FloatSub(subtract_from, to_subtract)))
      [] WidenedPair(subtract_from, to_subtract) ->
            OkObj(InKind("Float64", FloatSub(subtract_from, to_subtract)))
      [] OTHER -> ErrObj("IncompatibleTypes")

\* The match on (*left, *right) in prim_word_mul.
match_mul(left, right, checks) ==
    CASE left.kind = "SignedInt" /\ right.kind = "SignedInt" -> IsizeResult(left.num * right.num)
      [] left.kind = "UnsignedInt" /\ right.kind = "UnsignedInt" ->
            UsizeResult(left.num * right.num, checks, "attempt to multiply with overflow")
      [] BothFloat32(left, right) -> OkObj(InKind("Float32", FloatMul(left, right)))
      [] WidenedPair(left, right) -> OkObj(InKind("Float64", FloatMul(left, right)))
      [] OTHER -> ErrObj("IncompatibleTypes")

\* The match on (*dividend, *divisor) in prim_word_div: its first arm takes every
\* dividend with a zero divisor of a numeric kind.
match_div(dividend, divisor, checks) ==
    IF divisor.kind \in {"SignedInt", "UnsignedInt", "Float32", "Float64"} /\ divisor.num = 0
            /\ divisor.den # 0
    THEN PanicObj("internal error: entered unreachable code: type system allowed division by zero")
    ELSE CASE dividend.kind = "SignedInt" /\ divisor.kind = "SignedInt" ->
                    IsizeResult(TruncDiv(dividend.num, divisor.num))
           [] dividend.kind = "UnsignedInt" /\ divisor.kind = "UnsignedInt" ->
                    OkObj(UnsignedInt(dividend.num \div divisor.num))
           [] BothFloat32(dividend, divisor) -> OkObj(InKind("Float32", FloatDiv(dividend, divisor)))
           [] WidenedPair(dividend, divisor) -> OkObj(InKind("Float64", FloatDiv(dividend, divisor)))
           [] OTHER -> ErrObj("IncompatibleTypes")

RuntimeArithmetic == {"prim_word_add", "prim_word_sub", "prim_word_mul", "prim_word_div"}

\* The second pop (the entry below the top) is the left operand, the first pop
\* (the top) the right one.
match_of(word, below, top, checks) ==
    CASE word = "prim_word_add" -> match_add(below, top, checks)
      [] word = "prim_word_sub" -> match_sub(below, top, checks)
      [] word = "prim_word_mul" -> match_mul(below, top, checks)
      [] word = "prim_word_div" -> match_div(below, top, checks)

\* The outcome of a runtime.rs word: its result, the Vec and the allocations left.
RuntimeOut(res, st, hp) == [res |-> res, store |-> st, heap |-> hp]

\* An arithmetic word that stores its result in the allocation of the operand it
\* popped first and pushes that handle back.
runtime_prim_word_in_place(word, st, hp, checks) ==
    IF Len(st) < 2 THEN RuntimeOut(Err("StackUnderflow"), st, hp)
    ELSE LET top == hp[st[Len(st)]]
             below == hp[st[Len(st) - 1]]
             rest == SubSeq(st, 1, Len(st) - 2)
             value == match_of(word, below, top, checks)
         IN CASE value.tag = "Ok" ->
                    LET h == st[Len(st)]
                        pushed == Store_push_boxed(rest, h, checks)
                    IN RuntimeOut(Ok, pushed.store,
                                  Live([hp EXCEPT ![h] = value.obj], pushed.store, <<>>))
              [] value.tag = "Err" -> RuntimeOut(Err(value.err), rest, Live(hp, rest, <<>>))
              [] OTHER -> RuntimeOut(Panic(value.err), rest, Live(hp, rest, <<>>))

\* runtime.rs prim_word_add / sub / mul / div on rt.store: the depth test, two
\* pops, then rt.store.push(match ...?), which allocates the result while the two
\* popped handles are still held; they are dropped when the word returns.
runtime_prim_word(word, st, hp, checks) ==
    IF Len(st) < 2 THEN RuntimeOut(Err("StackUnderflow"), st, hp)
    ELSE LET top == hp[st[Len(st)]]
             below == hp[st[Len(st) - 1]]
             rest == SubSeq(st, 1, Len(st) - 2)
             value == match_of(word, below, top, checks)
         IN CASE value.tag = "Ok" ->
                    LET h == StoredObject_new(hp)
                        pushed == Store_push_boxed(rest, h, checks)
                    IN RuntimeOut(Ok, pushed.store, Live(hp @@ (h :> value.obj), pushed.store, <<>>))
              [] value.tag = "Err" -> RuntimeOut(Err(value.err), rest, Live(hp, rest, <<>>))
              [] OTHER -> RuntimeOut(Panic(value.err), rest, Live(hp, rest, <<>>))

\* ---------------------------------------------------- runtime.rs state machine
\* Objects pushed on rt.store before a word is called.
RuntimeItems ==
    {UnsignedInt(1), UnsignedInt(0), SignedInt(-1), SignedInt(2), Float32(1, 2), Float64(3, 2)}

\* The objects the model keeps on rt.store: integers of magnitude MaxVal at most
\* (a negative UnsignedInt is a wrapped one) and floats in halves of the same range.
RuntimeKept(o) ==
    IF IsFloat(o) THEN o.den \in {1, 2} /\ Abs(o.num) <= MaxVal + 1
    ELSE Abs(o.num) <= MaxVal

\* rt.store.push(item)
runtime_push(item) ==
    /\ StoreRunning
    /\ Len(store) < MaxDepth
    /\ LET h == StoredObject_new(heap)
           out == Store_push_boxed(store, h, overflow_checks)
       IN /\ store' = out.store
          /\ heap' = Live(heap @@ (h :> item), out.store, <<>>)
          /\ ret' = RetOfItem("push", item, out.res, out.handles)
    /\ UNCHANGED <<overflow_checks, mainVars, parser>>

\* prim_word_add(&mut rt) and the other arithmetic words of runtime.rs
runtime_word(word) ==
    /\ StoreRunning
    /\ Len(store) >= 2 => (Exact(heap[store[Len(store)]]) /\ Exact(heap[store[Len(store) - 1]]))
    /\ LET out == runtime_prim_word(word, store, heap, overflow_checks)
       IN /\ \A i \in 1..Len(out.store) : RuntimeKept(out.heap[out.store[i]])
          /\ store' = out.store
          /\ heap' = out.heap
          /\ ret' = Ret(word, 0, out.res, <<>>)
    /\ UNCHANGED <<overflow_checks, mainVars, parser>>

NextRuntime ==
    \/ \E item \in RuntimeItems : runtime_push(item)
    \/ \E word \in RuntimeArithmetic : runtime_word(word)

SpecRuntime == Init /\ [][NextRuntime]_vars

\* --------------------------------------- store.rs Store, pushes and pops only
\* One Object of every kind of the enum Object.
ObjectKinds ==
    {Obj("Vocabulary", 0, 1), Obj("Word", 0, 1), SignedInt(-1), UnsignedInt(1),
     Float32(1, 2), Float64(3, 2)}

\* store.push(item); store.pop() with nothing in between
push_pop(item) ==
    /\ StoreRunning
    /\ LET h == StoredObject_new(heap)
           pushed == Store_push_boxed(store, h, overflow_checks)
           out == IF pushed.res # Ok THEN pushed ELSE Store_pop(pushed.store)
       IN /\ store' = out.store
          /\ heap' = Live(heap @@ (h :> item), out.store, out.handles)
          /\ ret' = RetOfItem("push_pop", item, out.res, out.handles)
    /\ UNCHANGED <<overflow_checks, mainVars, parser>>

NextPushPop ==
    \/ \E item \in StoreItems : push(item)
    \/ pop
    \/ \E item \in ObjectKinds : push_pop(item)

SpecPushPop == Init /\ [][NextPushPop]_vars

\* ------------------------------------- store.rs and runtime.rs, shared handles
\* The word run on a Store that holds several handles to one Object.
AliasWords == {"prim_word_add"}

\* The Object pushed before it is duplicated.
AliasItems == {UnsignedInt(1)}

NextAlias ==
    \/ \E item \in AliasItems : push(item)
    \/ dup
    \/ pop
    \/ \E word \in AliasWords : runtime_word(word)
    \/ swap
    \/ rot

SpecAlias == Init /\ [][NextAlias]_vars

\* ==================================================================
\* bootstrap/src/main.rs: the lexer, parse_string
\* ==================================================================
\* A grapheme is a one-character string, a text is a sequence of graphemes, and
\* "" stands for the None of an Option<&str>.
NoGrapheme == ""

PointInSource(line_number, col_number) ==
    [line_number |-> line_number, col_number |-> col_number]
NoPoint == PointInSource(0, 0)

\* EntityContents: the variant and the String it wraps.
EntityContents(variant, text) == [variant |-> variant, text |-> text]
NoContents == EntityContents("None", <<>>)

\* str::trim: drops the leading and the trailing White_Space.
RECURSIVE trim_start(_)
trim_start(text) ==
    IF text # <<>> /\ Head(text) \in White_Space THEN trim_start(Tail(text)) ELSE text

RECURSIVE trim_end(_)
trim_end(text) ==
    IF text # <<>> /\ text[Len(text)] \in White_Space
    THEN trim_end(SubSeq(text, 1, Len(text) - 1))
    ELSE text

trim(text) == trim_end(trim_start(text))

\* Option<EntityBuilder>: None, or a builder whose unset fields are "None",
\* NoPoint and NoContents.
NoEntityBuilder ==
    [some |-> FALSE, kind |-> "None", start |-> NoPoint, end |-> NoPoint,
     contents |-> NoContents]

\* EntityBuilder::new() followed by kind(..), start(..) and contents(..).
EntityBuilder(kind, start, contents) ==
    [some |-> TRUE, kind |-> kind, start |-> start, end |-> NoPoint,
     contents |-> contents]

\* EntityBuilder::append_content on a builder whose contents are initialized.
append_content(builder, content) ==
    [builder EXCEPT !.contents.text = Append(@, content)]

\* EntityBuilder::trim_content_if_applicable: every variant the lexer builds is
\* trimmed; absent contents are left alone.
trim_content_if_applicable(builder) ==
    IF builder.contents.variant = "None"
    THEN builder
    ELSE [builder EXCEPT !.contents.text = trim(@)]

\* EntityBuilder::end(..) then finalize_and_build(): the Entity.
finalize_and_build(builder, end) ==
    LET finalized == trim_content_if_applicable(builder)
    IN  [kind |-> finalized.kind, start |-> finalized.start, end |-> end,
         contents |-> finalized.contents]

\* What parse_string has come to: still in its loop, returned, or panicked.
InLoop == [tag |-> "None", err |-> "", at |-> NoPoint]
ParseOk == [tag |-> "Ok", err |-> "", at |-> NoPoint]
HashBangFoundOutsideFirstLine(line, col) ==
    [tag |-> "Err", err |-> "HashBangFoundOutsideFirstLine",
     at |-> PointInSource(line, col)]
InternalError == [tag |-> "Err", err |-> "InternalError", at |-> NoPoint]
unimplemented == [tag |-> "Panic", err |-> "not implemented", at |-> NoPoint]
unreachable ==
    [tag |-> "Panic", err |-> "internal error: entered unreachable code",
     at |-> NoPoint]

\* The locals of parse_string before its first grapheme; pos is the place of
\* the next grapheme of input.
parse_string_locals(input) ==
    [input |-> input, pos |-> 1, state |-> "FloatingInTheAbyss",
     last |-> NoGrapheme, lastlast |-> NoGrapheme, entity |-> NoEntityBuilder,
     line_number |-> 1, col_number |-> 1, entities |-> <<>>, result |-> InLoop]

\* The arm (other, _), also reached on the second try of a grapheme whose own
\* arm did nothing.
other_arm(p, other) ==
    IF p.state \in {"Comment", "Docstring", "HashBang", "Number"}
    THEN IF ~p.entity.some
         THEN [p EXCEPT !.result = unreachable]
         ELSE IF p.entity.contents.variant = "None"
         THEN [p EXCEPT !.result = InternalError]
         ELSE [p EXCEPT !.entity = append_content(@, other)]
    ELSE [p EXCEPT !.result = unimplemented]

\* The arm ("#", 0).
hash_arm(p) ==
    IF p.state = "FloatingInTheAbyss"
    THEN [p EXCEPT !.state = "CompilerHint"]
    ELSE other_arm(p, "#")

\* The arm ("!", 0).
bang_arm(p) ==
    IF p.state = "CompilerHint" /\ p.last = "#"
    THEN IF p.line_number = 1 /\ p.col_number = 2
         THEN [p EXCEPT !.state = "HashBang",
                        !.entity = EntityBuilder("HashBang",
                            PointInSource(p.line_number, p.col_number - 1),
                            EntityContents("HashBang", <<>>))]
         ELSE [p EXCEPT !.result =
                   HashBangFoundOutsideFirstLine(p.line_number, p.col_number)]
    ELSE IF p.state \in {"Comment", "Docstring"}
    THEN other_arm(p, "!")
    ELSE [p EXCEPT !.result = unimplemented]

\* The arm ("-", 0): it always breaks, so a dash is never appended.
dash_arm(p) ==
    IF p.lastlast = "-" /\ p.last = "-"
    THEN [p EXCEPT !.state = IF @ = "Docstring" THEN "FloatingInTheAbyss"
                                                ELSE "Docstring"]
    ELSE IF p.last = "-"
    THEN [p EXCEPT !.state = "Comment",
                   !.entity = EntityBuilder("Comment",
                       PointInSource(p.line_number, p.col_number - 1),
                       EntityContents("Comment", <<>>))]
    ELSE p

\* The arm of the ten digits.
digit_arm(p, grapheme) ==
    IF p.state = "FloatingInTheAbyss"
    THEN [p EXCEPT !.state = "Number",
                   !.entity = EntityBuilder("Number",
                       PointInSource(p.line_number, p.col_number),
                       EntityContents("Number", <<grapheme>>))]
    ELSE other_arm(p, grapheme)

\* The arm ("\n" | "\r\n", 0).
newline_arm(p) ==
    LET next_line(q) == [q EXCEPT !.line_number = @ + 1, !.col_number = 0]
    IN  IF p.state \in {"FloatingInTheAbyss", "Docstring",
                        "BareIdentifierThatMayBecomeFunctionCall"}
        THEN next_line(p)
        ELSE IF p.state = "BareIdentifier"
        THEN next_line([p EXCEPT !.state = "BareIdentifierThatMayBecomeFunctionCall"])
        ELSE IF p.state \in {"Comment", "HashBang", "Number"}
        THEN IF p.entity.some
             THEN next_line([p EXCEPT
                      !.entities = Append(@, finalize_and_build(p.entity,
                          PointInSource(p.line_number, p.col_number - 1))),
                      !.entity = NoEntityBuilder])
             ELSE [p EXCEPT !.result = unreachable]
        ELSE [p EXCEPT !.result = unimplemented]

\* The match on (grapheme, grapheme_tries) with its retry.
match_grapheme(p, grapheme) ==
    IF grapheme = "#" THEN hash_arm(p)
    ELSE IF grapheme = "!" THEN bang_arm(p)
    ELSE IF grapheme = "-" THEN dash_arm(p)
    ELSE IF IsDigit(grapheme) THEN digit_arm(p, grapheme)
    ELSE IF grapheme \in {"\n", "\r\n"} THEN newline_arm(p)
    ELSE other_arm(p, grapheme)

\* One turn of the for loop: the match, then the bookkeeping after it, which a
\* return or a panic inside the match skips.
for_grapheme(p, grapheme) ==
    LET q == match_grapheme(p, grapheme)
    IN  IF q.result # InLoop
        THEN q
        ELSE [q EXCEPT !.lastlast = q.last, !.last = grapheme,
                       !.col_number = @ + 1, !.pos = @ + 1]

\* After the loop: an entity in progress is ended where the input ends.
after_loop(p) ==
    IF p.entity.some
    THEN [p EXCEPT !.entities = Append(@, finalize_and_build(p.entity,
                       PointInSource(p.line_number, p.col_number))),
                   !.entity = [trim_content_if_applicable(@) EXCEPT
                                  !.end = PointInSource(p.line_number, p.col_number)],
                   !.result = ParseOk]
    ELSE [p EXCEPT !.result = ParseOk]

\* ---------------------------------------------------- the inputs of the model
\* Longest input built from Graphemes.
MaxInput == 4
Graphemes == {"#", "!", "-", "1", "_", ".", "a", " ", "\n"}

\* The inputs of the tests of the repository.
test_hashbang_simple ==
    <<"#", "!", "/", "u", "s", "r", "/", "b", "i", "n", "/", "e", "n", "v",
      " ", "g", "l", "u", "u", "m", "y", "c">>
test_comment_one_line ==
    <<"-", "-", " ", "t", "h", "i", "s", " ", "i", "s", " ", "a", " ", "o",
      "n", "e", " ", "l", "i", "n", "e", " ", "c", "o", "m", "m", "e", "n",
      "t">>
test_comment_one_line_weird_stuff ==
    <<"-", "-", "h", "e", "l", "l", "o", ".", " ", "\n", "-", "-", " ", "1",
      " ", "n", "e", "w", " ", "#", "_", " ", "l", "i", "n", "e", ",", " ",
      "w", "o", "o", " ", "h", "o", "o", "!", "\n">>
test_comment_docstring ==
    <<"-", "-", "-", "\n", "b", "l", "a", "h", "\n", "-", "-", "-">>
test_literal_number_int ==
    <<"1">>
test_literal_number_int_2 ==
    <<"4", "2">>
test_literal_number_int_with_underscores ==
    <<"1", "2", "_", "3", "4", "5">>
test_literal_number_int_with_underscores_2 ==
    <<"1", "2", "_", "3", "4", "5", "_", "6", "7", "8">>
test_literal_number_float ==
    <<"3", ".", "1", "4">>
test_literal_number_float_with_underscore ==
    <<"1", "_", "0", "0", "3", ".", "1", "4">>
test_literal_number_float_with_underscore_2 ==
    <<"1", "_", "0", "0", "3", ".", "1", "4", "1", "_", "5">>
test_literal_number_with_multiple_decimal_err ==
    <<"3", ".", "1", "4", ".", "1", "5">>

TestInputs ==
    {test_hashbang_simple,
     test_comment_one_line,
     test_comment_one_line_weird_stuff,
     test_comment_docstring,
     test_literal_number_int,
     test_literal_number_int_2,
     test_literal_number_int_with_underscores,
     test_literal_number_int_with_underscores_2,
     test_literal_number_float,
     test_literal_number_float_with_underscore,
     test_literal_number_float_with_underscore_2,
     test_literal_number_with_multiple_decimal_err}

\* Two lines that each begin with "#!", a "#!" line with an option, a comment
\* that holds "--", a docstring of one line, and a comment before a blank line.
LongerInputs ==
    {<<"#", "!", "a", "\n", "#", "!", "a">>,
     <<"#", "!", "/", "b", "i", "n", "/", "s", "h", " ", "-", "e">>,
     <<"-", "-", "a", "-", "-", "b">>,
     <<"-", "-", "-", "a", "-", "-", "-">>,
     <<"-", "-", " ", "a", "\n", "\n", "1">>}

Inputs ==
    TestInputs \cup LongerInputs \cup UNION {[1..n -> Graphemes] : n \in 0..MaxInput}

\* ------------------------------------------------------------ state machine
InitParse ==
    /\ overflow_checks = TRUE
    /\ container = <<>>
    /\ dictionary = populate_primitive_words(EmptyDictionary)
    /\ call = NoCall
    /\ store = <<>>
    /\ heap = EmptyHeap
    /\ ret = NoRet
    /\ parser \in {parse_string_locals(input) : input \in Inputs}

\* The body of the for loop on the next grapheme of the input.
parse_grapheme ==
    /\ parser.result = InLoop
    /\ parser.pos <= Len(parser.input)
    /\ parser' = for_grapheme(parser, parser.input[parser.pos])
    /\ UNCHANGED <<overflow_checks, mainVars, storeVars>>

\* The input is used up: the code after the loop, and the return.
parse_end ==
    /\ parser.result = InLoop
    /\ parser.pos > Len(parser.input)
    /\ parser' = after_loop(parser)
    /\ UNCHANGED <<overflow_checks, mainVars, storeVars>>

NextParse ==
    \/ parse_grapheme
    \/ parse_end

SpecParse == InitParse /\ [][NextParse]_vars

\* ============================================ properties of spec.md
StackUnderflow == [tag |-> "Err", err |-> "StackUnderflow", name |-> <<>>]
IncompatibleTypes == [tag |-> "Err", err |-> "IncompatibleTypes", name |-> <<>>]

\* C1: when feed resolves a token to a Primitive word and the word's native
\* implementation returns an error, feed returns that same error; it never returns
\* Ok for a word whose implementation failed.
C1_FeedReturnsWordError ==
    (/\ call.op = "feed_word"
     /\ call.executed \in PrimitiveImplementations
     /\ call.word_result.tag = "Err") => call.result = call.word_result

\* The implementation of the most recently defined entry of impls that is not hidden.
NewestVisible(impls) ==
    LET i == CHOOSE k \in 1..Len(impls) :
                ~impls[k].hidden /\ \A j \in (k + 1)..Len(impls) : impls[j].hidden
    IN impls[i].implementation

\* C2: feed(id) runs the most recently defined non-hidden definition of id, for
\* any number of redefinitions, and never an older one.
C2_FeedRunsNewestVisible ==
    (/\ call.op = "feed_word"
     /\ call.word_str \in DOMAIN dictionary
     /\ \E k \in 1..Len(dictionary[call.word_str]) : ~dictionary[call.word_str][k].hidden)
        => call.executed = NewestVisible(dictionary[call.word_str])

\* C3: a feed of an arithmetic word that fails for any reason leaves the Store
\* exactly as it was before the call: the operands are not consumed.
C3_FailedArithmeticKeepsStore ==
    [][(/\ call'.op = "feed_word"
        /\ call'.executed \in ArithmeticImplementations
        /\ call'.word_result.tag = "Err") => container' = container]_vars

\* C4: every feed call returns Ok or an error value; none panics or reaches an
\* unreachable!/unimplemented! branch.
C4_FeedNeverPanics == call.op = "feed_word" => call.result.tag \in {"Ok", "Err"}

\* The depth below which each Store operation underflows.
Required(op) == CASE op = "pop" -> 1 [] op = "dup" -> 1 [] op = "swap" -> 2 [] op = "rot" -> 3

\* C5: pop, dup, swap and rot on a Store shallower than 1, 1, 2 and 3 return
\* StackUnderflow and leave the Store unchanged.
C5_UnderflowLeavesStore ==
    [][(ret'.op \in {"pop", "dup", "swap", "rot"} /\ Len(store) < Required(ret'.op))
            => (ret'.res = StackUnderflow /\ store' = store)]_vars

ExpectedLiteral(word_str) ==
    CASE word_str = <<"4", "2">> -> [kind |-> "UnsignedInt", num |-> 42, den |-> 1]
      [] word_str = <<"2">> -> [kind |-> "UnsignedInt", num |-> 2, den |-> 1]
      [] word_str = <<"0">> -> [kind |-> "UnsignedInt", num |-> 0, den |-> 1]
      [] word_str = <<"-", "3">> -> [kind |-> "SignedInt", num |-> -3, den |-> 1]
      [] word_str = <<"-", "1">> -> [kind |-> "SignedInt", num |-> -1, den |-> 1]
      [] word_str = <<"3", ".", "5">> -> [kind |-> "Float", num |-> 7, den |-> 2]

\* C7: a token that resolves to no visible word and parses as a number pushes
\* exactly one Object, of the first kind among unsigned, signed, float that parses
\* ("42" UnsignedInt(42), "-3" SignedInt(-3), "3.5" Float64(3.5)), on top of the
\* Store, leaves every existing entry unchanged and returns Ok.
C7_LiteralFallback ==
    [][(/\ call'.op = "feed_word"
        /\ call'.word_str \in LiteralTokens
        /\ selected_word_idx(call'.word_str, dictionary) = 0)
            => (/\ container' = <<ExpectedLiteral(call'.word_str)>> \o container
                /\ call'.result.tag = "Ok")]_vars

\* C7 witness: "3.5" was fed on top of an existing entry and is now the top.
C7_Witness ==
    /\ call.op = "feed_word"
    /\ call.word_str = <<"3", ".", "5">>
    /\ call.result.tag = "Ok"
    /\ Len(container) = 2
    /\ container[1] = [kind |-> "Float", num |-> 7, den |-> 2]

\* Tokens of SpecDict that parse as no number.
NonLiterals == {T_abc, T_inc}

IsInt(o) == o.kind \in {"UnsignedInt", "SignedInt"}

\* C9: the top of the Store is the right operand and the entry below it the left
\* one: with a pushed before b, sub leaves a - b, div a / b and mod a mod b.
\* (Stated on integer pairs of one kind, with a non-zero b for div and mod and
\* with a >= b for an unsigned sub.)
C9_TopIsRightOperand ==
    [][(/\ call'.op = "feed_word"
        /\ call'.executed \in {"prim_word_sub", "prim_word_div", "prim_word_mod"}
        /\ call'.word_result.tag = "Ok"
        /\ IsInt(container[1])
        /\ container[2].kind = container[1].kind
        /\ call'.executed # "prim_word_sub" => container[1].num # 0
        /\ (call'.executed = "prim_word_sub" /\ container[1].kind = "UnsignedInt")
                => container[2].num >= container[1].num)
            => LET a == container[2].num
                   b == container[1].num
               IN container'[1].num =
                    CASE call'.executed = "prim_word_sub" -> a - b
                      [] call'.executed = "prim_word_div" -> TruncDiv(a, b)
                      [] call'.executed = "prim_word_mod" -> TruncRem(a, b)]_vars

\* Operand kinds with no defined coercion: two different kinds, or a Boolean.
Incompatible(l, r) == l.kind # r.kind \/ l.kind = "Boolean" \/ r.kind = "Boolean"

\* C10: add, sub, mul, div and mod on an unsigned/signed mix, an integer/float mix
\* or anything involving Boolean return the error IncompatibleTypes.
C10_MixedKindsIncompatible ==
    [][(/\ call'.op = "feed_word"
        /\ call'.executed \in ArithmeticImplementations
        /\ Len(container) >= 2
        /\ Incompatible(container[1], container[2]))
            => call'.word_result = IncompatibleTypes]_vars

DivisionByZero == [tag |-> "Err", err |-> "DivisionByZero", name |-> <<>>]
ArithmeticUnderflow == [tag |-> "Err", err |-> "ArithmeticUnderflow", name |-> <<>>]

\* C11: div and mod whose right-hand operand, the top of the Store, is zero
\* return DivisionByZero for every numeric kind: they neither panic nor produce
\* a value.  (Stated on operand pairs of one numeric kind.)
C11_ZeroDivisorIsError ==
    [][(/\ call'.op = "feed_word"
        /\ call'.executed \in {"prim_word_div", "prim_word_mod"}
        /\ Len(container) >= 2
        /\ IsNumber(container[1])
        /\ container[2].kind = container[1].kind
        /\ container[1].num = 0
        /\ container[1].den = 1)
            => call'.word_result = DivisionByZero]_vars

\* C12: sub on two UnsignedInt operands a (below) and b (top) with a - b < 0
\* returns ArithmeticUnderflow; and no sub on two UnsignedInt operands panics or
\* leaves a wrapped value.
C12_UnsignedSubUnderflow ==
    [][(/\ call'.op = "feed_word"
        /\ call'.executed = "prim_word_sub"
        /\ Len(container) >= 2
        /\ container[1].kind = "UnsignedInt"
        /\ container[2].kind = "UnsignedInt")
            => (/\ container[2].num - container[1].num < 0
                    => call'.word_result = ArithmeticUnderflow
                /\ call'.word_result.tag # "Panic"
                /\ call'.word_result.tag = "Ok" => container'[1].num >= 0)]_vars

\* C13: add and mul of runtime.rs on two operands of one numeric kind succeed
\* with a result of that kind, and on a Float32/Float64 pair in either order with a
\* Float64; for integers the value is the exact sum or product.  Whenever sub or
\* div succeed, their result has the kind so determined as well.
C13_ResultKind ==
    [][(/\ ret'.op \in RuntimeArithmetic
        /\ Len(store) >= 2
        /\ heap[store[Len(store)]].kind \in {"UnsignedInt", "SignedInt", "Float32", "Float64"}
        /\ \/ heap[store[Len(store) - 1]].kind = heap[store[Len(store)]].kind
           \/ {heap[store[Len(store) - 1]].kind, heap[store[Len(store)]].kind}
                    = {"Float32", "Float64"})
            => LET l == heap[store[Len(store) - 1]]
                   r == heap[store[Len(store)]]
                   out == heap'[store'[Len(store')]]
               IN /\ ret'.op \in {"prim_word_add", "prim_word_mul"} => ret'.res.tag = "Ok"
                  /\ ret'.res.tag = "Ok" =>
                        /\ out.kind = IF l.kind = r.kind THEN l.kind ELSE "Float64"
                        /\ (r.kind \in {"UnsignedInt", "SignedInt"} /\ ret'.op = "prim_word_add")
                                => (out.num = l.num + r.num /\ out.den = 1)
                        /\ (r.kind \in {"UnsignedInt", "SignedInt"} /\ ret'.op = "prim_word_mul")
                                => (out.num = l.num * r.num /\ out.den = 1)]_vars

\* C13 witness: an add has replaced two operands by the Float64 2.0, the sum of
\* the Float32 0.5 and the Float64 1.5.
C13_Witness ==
    /\ ret.op = "prim_word_add"
    /\ ret.res.tag = "Ok"
    /\ Len(store) = 1
    /\ heap[store[1]] = [kind |-> "Float64", num |-> 2, den |-> 1]

\* The indices of the definitions of identifier in dict that are not hidden.
Visible(dict, identifier) ==
    IF identifier \in DOMAIN dict
    THEN {k \in 1..Len(dict[identifier]) : ~dict[identifier][k].hidden}
    ELSE {}

\* C14: a hidden definition is never selected.  feed(id) runs a visible
\* definition of id when there is one, whatever hidden definitions exist beside it;
\* when every definition of id is hidden feed behaves as for an undefined id: it
\* pushes the literal the token parses as, or else fails with NoWordsByName and
\* leaves the Store as it was.
C14_HiddenNeverSelected ==
    [][call'.op = "feed_word" =>
        LET id == call'.word_str
        IN IF Visible(dictionary, id) # {}
           THEN \E k \in Visible(dictionary, id) :
                    call'.executed = dictionary[id][k].implementation
           ELSE IF id \in LiteralTokens
                THEN /\ call'.executed = "literal"
                     /\ call'.result.tag = "Ok"
                     /\ container' = <<ExpectedLiteral(id)>> \o container
                ELSE /\ call'.executed = "none"
                     /\ call'.result.err = "NoWordsByName"
                     /\ container' = container]_vars

\* C14 witness: "inc" has a hidden definition followed by a visible one with
\* another implementation, and feed ran the visible one.
C14_Witness ==
    /\ call.op = "feed_word"
    /\ call.word_str = T_inc
    /\ T_inc \in DOMAIN dictionary
    /\ Len(dictionary[T_inc]) = 2
    /\ dictionary[T_inc][1].hidden
    /\ ~dictionary[T_inc][2].hidden
    /\ dictionary[T_inc][1].implementation # dictionary[T_inc][2].implementation
    /\ call.executed = dictionary[T_inc][2].implementation

\* The definition list of identifier in dict, empty before its first definition.
ListOf(dict, identifier) == IF identifier \in DOMAIN dict THEN dict[identifier] ELSE <<>>

\* C15: define(identifier, word) appends word to the end of the identifier's
\* definition list, creating the list on first use, and changes nothing else: the
\* earlier definitions of the identifier stay in place and in order, no other
\* identifier's list changes, none disappears, and the Store is untouched.
C15_DefineAppends ==
    [][call'.op = "define_word" =>
        LET id == call'.word_str
            old == ListOf(dictionary, id)
        IN /\ DOMAIN dictionary' = DOMAIN dictionary \cup {id}
           /\ \E word \in DefinedWords : dictionary'[id] = old \o <<word>>
           /\ \A other \in DOMAIN dictionary \ {id} : dictionary'[other] = dictionary[other]
           /\ container' = container]_vars

\* C15 witness: a second, different definition of "inc" has just been added behind
\* the first.
C15_Witness ==
    /\ call.op = "define_word"
    /\ call.word_str = T_inc
    /\ Len(ListOf(dictionary, T_inc)) = 2
    /\ dictionary[T_inc][1] # dictionary[T_inc][2]

\* The identifiers the primitives vocabulary must hold.
RequiredPrimitives == {T_drop, T_dup, T_swap, T_rot, T_add, T_sub, T_mul, T_div, T_mod}

\* C16: a freshly constructed Runtime has an empty Store, and each of drop, dup,
\* swap, rot, add, sub, mul, div and mod resolves, via feed, to a visible Primitive
\* word.  (Nothing is defined after construction here, so the dictionary is the
\* fresh one throughout.)
C16_FreshRuntime ==
    /\ call = NoCall => container = <<>>
    /\ (call.op = "feed_word" /\ call.word_str \in RequiredPrimitives)
            => (/\ call.executed \in PrimitiveImplementations
                /\ \E k \in Visible(dictionary, call.word_str) :
                        dictionary[call.word_str][k].implementation = call.executed)

\* C17: a successful arithmetic word on a Store of depth n >= 2 leaves depth
\* n - 1: the two top operands are gone, one result is on top (for add and mul on
\* two integers of one kind, their sum and product) and every entry below is
\* unchanged; "2" "2" "mul" from an empty Runtime leaves exactly UnsignedInt(4).
C17_ArithmeticLeavesOneResult ==
    [][(/\ call'.op = "feed_word"
        /\ call'.executed \in ArithmeticImplementations
        /\ call'.word_result.tag = "Ok")
            => (/\ Len(container) >= 2
                /\ Len(container') = Len(container) - 1
                /\ SubSeq(container', 2, Len(container')) = SubSeq(container, 3, Len(container))
                /\ container'[1].kind = container[1].kind
                /\ (call'.executed = "prim_word_add" /\ IsInt(container[1]))
                        => container'[1].num = container[2].num + container[1].num
                /\ (call'.executed = "prim_word_mul" /\ IsInt(container[1]))
                        => container'[1].num = container[2].num * container[1].num
                /\ (/\ call'.executed = "prim_word_mul"
                    /\ container = <<[kind |-> "UnsignedInt", num |-> 2, den |-> 1],
                                     [kind |-> "UnsignedInt", num |-> 2, den |-> 1]>>)
                        => container' = <<[kind |-> "UnsignedInt", num |-> 4, den |-> 1]>>)]_vars

\* C17 witness: a mul has left UnsignedInt(4) on top of one untouched entry.
C17_Witness ==
    /\ call.op = "feed_word"
    /\ call.executed = "prim_word_mul"
    /\ call.word_result.tag = "Ok"
    /\ Len(container) = 2
    /\ container[1] = [kind |-> "UnsignedInt", num |-> 4, den |-> 1]

\* C18: an arithmetic word called on a Store of depth 0 or 1 returns
\* StackUnderflow and leaves the Store unchanged: a lone operand is not popped.
C18_ArithmeticUnderflow ==
    [][(/\ call'.op = "feed_word"
        /\ call'.executed \in ArithmeticImplementations
        /\ Len(container) < 2)
            => (call'.word_result = StackUnderflow /\ container' = container)]_vars

\* C18 witness: an arithmetic word has returned StackUnderflow on a Store of
\* depth 1, whose operand is still there.
C18_Witness ==
    /\ call.op = "feed_word"
    /\ call.executed \in ArithmeticImplementations
    /\ call.word_result = StackUnderflow
    /\ Len(container) = 1

\* C19: peek_n(n) (Store::npeek) returns the handle n positions below the top
\* when n < depth and StackUnderflow when n >= depth, an empty Store included,
\* and never changes the Store.
C19_PeekN ==
    [][ret'.op = "npeek" =>
        /\ store' = store
        /\ IF ret'.n < Len(store)
           THEN ret'.res.tag = "Ok" /\ ret'.handles = <<store[Len(store) - ret'.n]>>
           ELSE ret'.res = StackUnderflow]_vars

C21_Swap ==
    [][(ret'.op = "swap" /\ Len(store) >= 2) =>
        LET n == Len(store)
        IN /\ ret'.res.tag = "Ok"
           /\ Len(store') = n
           /\ store'[n] = store[n - 1]
           /\ store'[n - 1] = store[n]
           /\ SubSeq(store', 1, n - 2) = SubSeq(store, 1, n - 2)
           /\ DOMAIN heap' \subseteq DOMAIN heap
           /\ \A h \in {store[n - 1], store[n]} : heap'[h] = heap[h]]_vars

\* C21 witness: a swap has succeeded on two different handles that hold
\* different Objects, above a third entry.
C21_Witness ==
    /\ ret.op = "swap"
    /\ ret.res.tag = "Ok"
    /\ Len(store) = 3
    /\ store[2] # store[3]
    /\ heap[store[2]] # heap[store[3]]

\* C22: on every Store of depth >= 2, swap followed by swap (any even number of
\* swaps in a row) succeeds and leaves the Store exactly as it was: the same
\* handles in the same order, holding the same Objects.
C22_SwapSwap ==
    [][(ret'.op = "swap_times" /\ ret'.n % 2 = 0 /\ Len(store) >= 2) =>
        /\ ret'.res.tag = "Ok"
        /\ store' = store
        /\ \A h \in Range(store) : h \in DOMAIN heap' /\ heap'[h] = heap[h]]_vars

\* C22 witness: two swaps in a row have succeeded on a Store whose top two
\* handles differ, so that a single swap would have changed it.
C22_Witness ==
    /\ ret.op = "swap_times"
    /\ ret.n = 2
    /\ ret.res.tag = "Ok"
    /\ Len(store) = 3
    /\ store[2] # store[3]

\* C23: on every Store of depth >= 3, three rots in a row (any multiple of
\* three) leave the Store exactly as it was, and when the top three handles are
\* distinct, one rot or two rots (any other count) leave a different Store.
C23_RotRotRot ==
    [][(ret'.op = "rot_times" /\ Len(store) >= 3) =>
        LET n == Len(store)
        IN /\ ret'.res.tag = "Ok"
           /\ ret'.n % 3 = 0 =>
                /\ store' = store
                /\ \A h \in Range(store) : h \in DOMAIN heap' /\ heap'[h] = heap[h]
           /\ (ret'.n % 3 # 0 /\ Cardinality({store[n - 2], store[n - 1], store[n]}) = 3) =>
                store' # store]_vars

\* C23 witness: three rots in a row have succeeded on three distinct handles.
C23_Witness ==
    /\ ret.op = "rot_times"
    /\ ret.n = 3
    /\ ret.res.tag = "Ok"
    /\ Len(store) = 3
    /\ Cardinality({store[1], store[2], store[3]}) = 3

\* C24: a fresh Store is empty, and from there every push raises len() by one,
\* every successful pop lowers it by one and a failed pop leaves it (and the
\* Store) as it was: len() is the number of pushes minus the number of
\* successful pops, and never negative.
C24_LenCountsPushesAndPops ==
    /\ Store_len(store) = 0
    /\ [][/\ ret'.op = "push" =>
                ret'.res.tag = "Ok" /\ Store_len(store') = Store_len(store) + 1
          /\ (ret'.op = "pop" /\ ret'.res.tag = "Ok") =>
                Store_len(store') = Store_len(store) - 1
          /\ (ret'.op = "pop" /\ ret'.res.tag # "Ok") =>
                /\ ret'.res = StackUnderflow
                /\ Store_len(store) = 0
                /\ store' = store
          /\ Store_len(store') >= 0]_vars

\* C24 witness: after three pushes and one successful pop the Store holds two.
C24_Witness ==
    /\ ret.op = "pop"
    /\ ret.res.tag = "Ok"
    /\ Store_len(store) = MaxLen - 1

IsLiteralFeed(c) == c.op = "feed_word" /\ c.word_str \in LiteralTokens

\* C26: tokens take effect in feed order. Every literal fed lands on top of
\* what was fed before it, so that of two literals fed one after the other the
\* later is on top and the earlier right below; every pop hands back the top
\* entry and removes exactly it. Popping after t1..tk returns tk..t1, nothing
\* reordered, batched or lost.
C26_FeedOrder ==
    [][/\ IsLiteralFeed(call') =>
            /\ call'.result = Ok
            /\ container' = <<ExpectedLiteral(call'.word_str)>> \o container
       /\ (IsLiteralFeed(call) /\ IsLiteralFeed(call')) =>
            /\ container'[1] = ExpectedLiteral(call'.word_str)
            /\ container'[2] = ExpectedLiteral(call.word_str)
            /\ Len(container') = Len(container) + 1
       /\ (call'.op = "pop_front" /\ container # <<>>) =>
            /\ call'.result = Ok
            /\ call'.entry = container[1]
            /\ container' = Tail(container)
       /\ (IsLiteralFeed(call) /\ call'.op = "pop_front") =>
            call'.entry = ExpectedLiteral(call.word_str)]_vars

\* C26 witness: after "2" and "42" were fed, the first pop has returned 42 and
\* left 2 for the next.
C26_Witness ==
    /\ call.op = "pop_front"
    /\ call.result = Ok
    /\ call.entry = ExpectedLiteral(<<"4", "2">>)
    /\ container = <<ExpectedLiteral(<<"2">>)>>

\* C27: the word drop removes exactly the top entry: the depth falls by one and
\* every entry below is unchanged; on an empty Store it fails with
\* StackUnderflow and the Store stays empty.
C27_Drop ==
    [][(call'.op = "feed_word" /\ call'.executed = "prim_word_drop") =>
        IF container = <<>>
        THEN call'.word_result = StackUnderflow /\ container' = <<>>
        ELSE /\ call'.word_result = Ok
             /\ Len(container') = Len(container) - 1
             /\ container' = Tail(container)]_vars

\* C27 witness: drop has removed the top entry of a Store of depth two and
\* left the lower one.
C27_Witness ==
    /\ call.op = "feed_word"
    /\ call.executed = "prim_word_drop"
    /\ call.word_result = Ok
    /\ container = <<ExpectedLiteral(<<"2">>)>>

\* C28: when feed_word resolves a token to a word whose implementation is a
\* WordSequence or a Constant, it returns an error saying that this is not yet
\* supported: it neither succeeds silently nor panics, and the Store is left
\* unchanged.
C28_NonPrimitiveIsError ==
    [][(call'.op = "feed_word" /\ call'.executed \in {"WordSequence", "Constant"}) =>
        /\ call'.result.tag = "Err"
        /\ container' = container]_vars

StackOverflow == Err("StackOverflow")

\* C29: with MAX_STORE_SIZE as the maximum depth of the Store, a push that
\* would take the depth past it (a direct push, the push done by dup, a literal
\* pushed by feed_word) fails with StackOverflow and leaves the Store unchanged.
C29_PushPastMaximum ==
    [][(/\ Len(container) = MAX_STORE_SIZE
        /\ \/ call'.op = "push_front"
           \/ call'.op = "feed_word" /\ call'.executed \in {"literal", "prim_word_dup"}) =>
        /\ StackOverflow \in {call'.result, call'.word_result}
        /\ container' = container]_vars

\* C30: when feed_word returns an error for a token, the REPL reports it and
\* goes on with the tokens and lines that follow: a failing token never ends
\* the session.
C30_ReplSurvivesFeedError ==
    (call.op = "main" /\ call.fed.tag = "Err") => call.result = Ok

\* The handle the caller owns after a call: the Rc that pop returned.
OwnedAfter(r) == IF r.op = "pop" THEN r.handles ELSE <<>>

\* C31: an Object reached through a handle never changes, and it lives as long
\* as some handle to it remains: whatever a call does (dup, a pop or drop of one
\* alias, an arithmetic word that consumes an alias as operand), every handle
\* still held afterwards, by a Store slot or by the caller, refers to the Object
\* it referred to before.
C31_HeldObjectsNeverChange ==
    [][\A h \in DOMAIN heap :
        h \in Range(store') \cup Range(OwnedAfter(ret')) =>
            h \in DOMAIN heap' /\ heap'[h] = heap[h]]_vars

\* C31 witness: after a dup one alias was popped and the other is still on
\* the Store, both handles to a live Object.
C31_Witness ==
    /\ ret.op = "pop"
    /\ ret.res.tag = "Ok"
    /\ ret.handles[1] \in Range(store)
    /\ ret.handles[1] \in DOMAIN heap

\* How many slots of a Store hold the handle h.
Slots(st, h) == Cardinality({i \in 1..Len(st) : st[i] = h})

\* C33: two Store slots hold the same instance only through dup. A push and the
\* result of an arithmetic word are new allocations, distinct from every
\* existing one even when an equal Object exists; dup adds one slot for the top
\* handle; no other call (pop, swap, rot, a word) raises the number of slots
\* that hold any handle.
C33_AliasesOnlyByDup ==
    [][/\ (ret'.op = "push" \/ (ret'.op \in AliasWords /\ ret'.res.tag = "Ok")) =>
            /\ store'[Len(store')] \notin DOMAIN heap
            /\ Slots(store', store'[Len(store')]) = 1
       /\ (ret'.op = "dup" /\ ret'.res.tag = "Ok") =>
            /\ store' = Append(store, store[Len(store)])
       /\ ret'.op # "dup" =>
            \A h \in DOMAIN heap : Slots(store', h) <= Slots(store, h)]_vars

\* C33 witness: an addition has left a result equal to the Object in the
\* slot below it, in an allocation of its own.
C33_Witness ==
    /\ ret.op = "prim_word_add"
    /\ ret.res.tag = "Ok"
    /\ Len(store) = 2
    /\ store[1] # store[2]
    /\ heap[store[1]] = heap[store[2]]

\* C32: the dictionary is consulted before the token is parsed as a number.
\* When a visible word is defined under an identifier that is also a numeric
\* literal, feed_word runs that word, with the word's effect on the Store, and
\* pushes no literal; the literal is pushed only when the identifier has no
\* visible word.
C32_DictionaryBeforeLiteral ==
    [][(call'.op = "feed_word" /\ call'.word_str \in LiteralTokens) =>
        LET id == call'.word_str
        IN IF Visible(dictionary, id) # {}
           THEN /\ call'.executed # "literal"
                /\ \E k \in Visible(dictionary, id) :
                        call'.executed = dictionary[id][k].implementation
                /\ call'.executed \in PrimitiveImplementations =>
                        container' = CallPrimitive(call'.executed, container,
                                                   overflow_checks).container
                /\ call'.executed \notin PrimitiveImplementations => container' = container
           ELSE /\ call'.executed = "literal"
                /\ container' = <<ExpectedLiteral(id)>> \o container]_vars

\* C32 witness: with a visible drop defined under "2", feeding "2" has run
\* drop on a Store that held an entry and has left it empty.
C32_Witness ==
    /\ call.op = "feed_word"
    /\ call.word_str = <<"2">>
    /\ call.executed = "prim_word_drop"
    /\ call.word_result = Ok
    /\ container = <<>>

\* The tokens of a line: its maximal runs of characters other than space, tab
\* and newline, from left to right.
RECURSIVE RunLength(_)
RunLength(s) ==
    IF s = <<>> \/ s[1] \in {" ", "\t", "\n"} THEN 0 ELSE 1 + RunLength(Tail(s))

RECURSIVE TokensOf(_)
TokensOf(line) ==
    IF line = <<>> THEN <<>>
    ELSE IF RunLength(line) = 0 THEN TokensOf(Tail(line))
         ELSE <<SubSeq(line, 1, RunLength(line))>>
                  \o TokensOf(SubSeq(line, RunLength(line) + 1, Len(line)))

\* The Store after the literals of tokens were pushed on c one after the other.
RECURSIVE PushedInOrder(_, _)
PushedInOrder(tokens, c) ==
    IF tokens = <<>> THEN c
    ELSE PushedInOrder(Tail(tokens), <<ExpectedLiteral(tokens[1])>> \o c)

\* C34: for every line, the token loop of the REPL ends after it has fed each
\* token of the line exactly once, from left to right; also for a last line
\* without a newline and for lines with leading or repeated delimiters. (Stated
\* on lines whose tokens are all numeric literals, where feeding cannot fail.)
C34_TokenLoop ==
    [][(/\ call'.op = "main"
        /\ \A i \in 1..Len(TokensOf(call'.word_str)) :
                TokensOf(call'.word_str)[i] \in LiteralTokens) =>
        /\ call'.result = Ok
        /\ container' = PushedInOrder(TokensOf(call'.word_str), container)]_vars

\* ------------------------------------------------------------------
\* The lexer of bootstrap/src/main.rs, as spec.md describes it.
\* Where a grapheme of a text stands: lines and columns count from 1, and a
\* newline is the last grapheme of its line.
LineOf(text, i) == 1 + Cardinality({j \in 1..(i - 1) : text[j] = "\n"})
ColOf(text, i) ==
    LET newlines == {j \in 1..(i - 1) : text[j] = "\n"}
    IN  IF newlines = {} THEN i
        ELSE i - (CHOOSE j \in newlines : \A k \in newlines : k <= j)

\* "#!" begins at place i of the text.
HashBangAt(text, i) == i + 1 <= Len(text) /\ text[i] = "#" /\ text[i + 1] = "!"

\* An Entity as the tests of the repository write it.
Entity(kind, start, end, contents) ==
    [kind |-> kind, start |-> start, end |-> end, contents |-> contents]

\* The text before the first newline.
FirstLine(text) ==
    LET newlines == {j \in 1..Len(text) : text[j] = "\n"}
    IN  IF newlines = {} THEN text
        ELSE SubSeq(text, 1, (CHOOSE j \in newlines : \A k \in newlines : j <= k) - 1)

\* C35: a "#!" in columns 1-2 of line 1 gives a HashBang entity that starts at
\* line 1, column 1 and holds the rest of the line, trimmed; a "#!" that begins
\* anywhere else makes parse_string return HashBangFoundOutsideFirstLine with
\* the line and the column of the "!".
C35_HashBang ==
    [][/\ ( /\ HashBangAt(parser.input, 1)
            /\ FirstLine(parser.input) = parser.input
            /\ parser.result = InLoop
            /\ parser'.result # InLoop )
          => /\ parser'.result = ParseOk
             /\ parser'.entities =
                   <<Entity("HashBang", PointInSource(1, 1),
                            PointInSource(1, Len(parser.input) + 1),
                            EntityContents("HashBang",
                                trim(SubSeq(parser.input, 3, Len(parser.input)))))>>
       /\ ( /\ parser.result = InLoop
            /\ parser.pos > 1
            /\ HashBangAt(parser.input, parser.pos) )
          => parser'.result = InLoop
       /\ ( /\ parser.result = InLoop
            /\ parser.pos > 2
            /\ HashBangAt(parser.input, parser.pos - 1) )
          => parser'.result =
                HashBangFoundOutsideFirstLine(LineOf(parser.input, parser.pos),
                                              ColOf(parser.input, parser.pos))
      ]_vars

\* The lines of a text: the runs between newlines; a newline at the very end
\* of the text does not open a further line.
RECURSIVE SplitLines(_)
SplitLines(text) ==
    IF text = <<>> THEN <<>>
    ELSE LET first == FirstLine(text)
         IN  <<first>> \o SplitLines(SubSeq(text, Len(first) + 2, Len(text)))

\* The line begins with "--", and not with the "---" of a docstring.
IsCommentLine(line) ==
    /\ Len(line) >= 2
    /\ line[1] = "-"
    /\ line[2] = "-"
    /\ Len(line) >= 3 => line[3] # "-"

\* C36: every line that begins with "--" gives exactly one Comment entity,
\* which starts at the column of the first dash and holds every grapheme after
\* the "--" up to the end of the line, in order and trimmed ("-", "#", "!" and
\* digits included); n such lines give n entities in the order of the lines.
C36_CommentPerLine ==
    LET lines == SplitLines(parser.input)
    IN  ( /\ parser.result # InLoop
          /\ lines # <<>>
          /\ \A k \in 1..Len(lines) : IsCommentLine(lines[k]) )
        => /\ parser.result = ParseOk
           /\ Len(parser.entities) = Len(lines)
           /\ \A k \in 1..Len(lines) :
                 /\ parser.entities[k].kind = "Comment"
                 /\ parser.entities[k].start = PointInSource(k, 1)
                 /\ parser.entities[k].contents =
                       EntityContents("Comment",
                           trim(SubSeq(lines[k], 3, Len(lines[k]))))

\* The text is an opening "---", a middle without dashes, and a closing "---".
IsDocstring(text) ==
    /\ Len(text) >= 6
    /\ \A i \in 1..Len(text) :
          text[i] = "-" <=> (i <= 3 \/ i > Len(text) - 3)

\* C37: text enclosed between an opening "---" and a closing "---" gives
\* exactly one entity, a DocString from the first dash of the opening to the
\* end of the closing, whose contents are the enclosed text, trimmed.
C37_Docstring ==
    ( parser.result # InLoop /\ IsDocstring(parser.input) )
    => /\ parser.result = ParseOk
       /\ parser.entities =
             <<Entity("DocString", PointInSource(1, 1),
                      PointInSource(LineOf(parser.input, Len(parser.input)),
                                    ColOf(parser.input, Len(parser.input)) + 1),
                      EntityContents("Docstring",
                          trim(SubSeq(parser.input, 4, Len(parser.input) - 3))))>>

\* A numeric literal: digits, "_" separators and decimal points, from a digit
\* to a digit.
IsNumericLiteral(text) ==
    /\ text # <<>>
    /\ IsDigit(text[1])
    /\ IsDigit(text[Len(text)])
    /\ \A i \in 1..Len(text) : IsDigit(text[i]) \/ text[i] \in {"_", "."}

NotUnderscore(grapheme) == grapheme # "_"

\* C38: a numeric literal gives one Number entity whose contents are the
\* literal without its "_" separators, and whose start and end span the
\* literal as it is written.
C38_NumberWithoutUnderscores ==
    ( parser.result # InLoop /\ IsNumericLiteral(parser.input) )
    => /\ parser.result = ParseOk
       /\ parser.entities =
             <<Entity("Number", PointInSource(1, 1),
                      PointInSource(1, Len(parser.input) + 1),
                      EntityContents("Number",
                          SelectSeq(parser.input, NotUnderscore)))>>

\* C39: whenever parse_string is in state Comment, HashBang or Number an entity
\* builder is in progress, and so no input brings it to an unreachable!().
C39_EntityInProgress ==
    /\ ( parser.result = InLoop /\ parser.state \in {"Comment", "HashBang", "Number"} )
       => parser.entity.some
    /\ parser.result # unreachable

====
